---- MODULE Spec2Model ----
(***************************************************************************)
(* OCR-VLM: the extraction pipeline of services/extraction_service.py,     *)
(* the retrying VLM client of services/vlm_service.py, the rasterizer of   *)
(* utils/image_processor.py and the response parser of                     *)
(* utils/json_parser.py, as one state machine.                             *)
(*                                                                         *)
(* Python values are tagged records: None is [py |-> "None"], a str is     *)
(* [py |-> "str", s |-> <<characters>>], a dict is [py |-> "dict", ...],   *)
(* a list is [py |-> "list", ...].  Exceptions are records                 *)
(* [type |-> <class name>, ...] and str(e) is the record's message.        *)
(***************************************************************************)
EXTENDS Integers, Sequences, FiniteSets, TLC

\* ------------------------------------------------------------------ bounds
\* Largest max_retries the client is configured with.
MaxRetries == 2
\* Largest number of pages a document decodes to.
MaxPages == 4
\* Largest number of uploaded files in one batch.
MaxFiles == 2
\* Largest amount of work in one batch: a unit is a rasterized page of the
\* template or of an upload, or an upload that yields no page.
MaxWork == 3
\* Largest width and height of a page image and of a target size, in pixels.
MaxSide == 6
\* Largest length of an enumerated model output, in characters.
MaxText == 5

\* --------------------------------------------------------- program constants
\* config.MAX_PDF_PAGES (environment MAX_PDF_PAGES).
MAX_PDF_PAGES == 3
\* config.MAX_RETRIES (environment MAX_RETRIES).
MAX_RETRIES == 1
\* config.RETRY_DELAY (environment RETRY_DELAY), in seconds.
RETRY_DELAY == 1

\* ------------------------------------------------------------ Python values
None == [py |-> "None"]

Str(chars) == [py |-> "str", s |-> chars]

IsStr(v) == v.py = "str"

\* isinstance(v, dict)
IsDict(v) == v.py = "dict"

\* isinstance(v, (dict, list))
IsDictOrList(v) == v.py \in {"dict", "list"}

Whitespace == {" "}

RECURSIVE LStrip(_)
LStrip(chars) ==
    IF chars # <<>> /\ Head(chars) \in Whitespace THEN LStrip(Tail(chars)) ELSE chars

RECURSIVE RStrip(_)
RStrip(chars) ==
    IF chars # <<>> /\ chars[Len(chars)] \in Whitespace
    THEN RStrip(SubSeq(chars, 1, Len(chars) - 1))
    ELSE chars

\* str.strip()
Strip(chars) == RStrip(LStrip(chars))

\* Python truthiness of an Optional[str]
Truthy(v) == v # None /\ ~(IsStr(v) /\ v.s = <<>>)

\* ------------------------------------------------- utils/json_parser.py
\* json.loads raising json.JSONDecodeError
JSONDecodeError == [py |-> "raise", type |-> "JSONDecodeError"]

Digits == {"0", "1"}

DigitValue(ch) == IF ch = "1" THEN 1 ELSE 0

\* The decoder's result at a position: parsed value and the index after it.
Parsed(v, next) == [ok |-> TRUE, v |-> v, next |-> next]

NoParse == [ok |-> FALSE]

RECURSIVE SkipWs(_, _)
SkipWs(chars, i) ==
    IF i <= Len(chars) /\ chars[i] \in Whitespace THEN SkipWs(chars, i + 1) ELSE i

\* dict[key] = value: a repeated key keeps its place and takes the new value.
RECURSIVE DictPut(_, _, _)
DictPut(items, key, value) ==
    IF items = <<>> THEN << <<key, value>> >>
    ELSE IF Head(items)[1] = key THEN << <<key, value>> >> \o Tail(items)
    ELSE << Head(items) >> \o DictPut(Tail(items), key, value)

\* A string literal from the character after its opening quote; the escapes
\* of the modelled alphabet are \" and \\, any other escape is an error.
RECURSIVE ParseString(_, _, _)
ParseString(chars, i, acc) ==
    IF i > Len(chars) THEN NoParse
    ELSE IF chars[i] = "\"" THEN Parsed(Str(acc), i + 1)
    ELSE IF chars[i] = "\\"
         THEN IF i + 1 <= Len(chars) /\ chars[i + 1] \in {"\"", "\\"}
              THEN ParseString(chars, i + 2, Append(acc, chars[i + 1]))
              ELSE NoParse
    ELSE ParseString(chars, i + 1, Append(acc, chars[i]))

\* A non-negative integer: 0, or a digit string without a leading zero.
RECURSIVE ParseDigits(_, _, _)
ParseDigits(chars, i, n) ==
    IF i <= Len(chars) /\ chars[i] \in Digits
    THEN ParseDigits(chars, i + 1, 10 * n + DigitValue(chars[i]))
    ELSE Parsed([py |-> "int", n |-> n], i)

ParseNumber(chars, i) ==
    IF chars[i] = "0" THEN Parsed([py |-> "int", n |-> 0], i + 1)
    ELSE ParseDigits(chars, i, 0)

RECURSIVE ParseValue(_, _)
RECURSIVE ParseElements(_, _, _)
RECURSIVE ParseMembers(_, _, _)

\* The elements of an array, from the first character of an element.
ParseElements(chars, i, acc) ==
    LET e == ParseValue(chars, i) IN
    IF ~e.ok THEN NoParse
    ELSE LET j == SkipWs(chars, e.next)
             elems == Append(acc, e.v) IN
         IF j > Len(chars) THEN NoParse
         ELSE IF chars[j] = "]" THEN Parsed([py |-> "list", elems |-> elems], j + 1)
         ELSE IF chars[j] = "," THEN ParseElements(chars, SkipWs(chars, j + 1), elems)
         ELSE NoParse

\* The members of an object, from the opening quote of a key.
ParseMembers(chars, i, acc) ==
    IF i > Len(chars) \/ chars[i] # "\"" THEN NoParse
    ELSE LET k == ParseString(chars, i + 1, <<>>) IN
         IF ~k.ok THEN NoParse
         ELSE LET c == SkipWs(chars, k.next) IN
              IF c > Len(chars) \/ chars[c] # ":" THEN NoParse
              ELSE LET m == ParseValue(chars, SkipWs(chars, c + 1)) IN
                   IF ~m.ok THEN NoParse
                   ELSE LET j == SkipWs(chars, m.next)
                            items == DictPut(acc, k.v.s, m.v) IN
                        IF j > Len(chars) THEN NoParse
                        ELSE IF chars[j] = "}"
                             THEN Parsed([py |-> "dict", items |-> items], j + 1)
                        ELSE IF chars[j] = ","
                             THEN ParseMembers(chars, SkipWs(chars, j + 1), items)
                        ELSE NoParse

ParseValue(chars, i) ==
    IF i > Len(chars) THEN NoParse
    ELSE IF chars[i] = "\"" THEN ParseString(chars, i + 1, <<>>)
    ELSE IF chars[i] = "{"
         THEN LET j == SkipWs(chars, i + 1) IN
              IF j <= Len(chars) /\ chars[j] = "}"
              THEN Parsed([py |-> "dict", items |-> <<>>], j + 1)
              ELSE ParseMembers(chars, j, <<>>)
    ELSE IF chars[i] = "["
         THEN LET j == SkipWs(chars, i + 1) IN
              IF j <= Len(chars) /\ chars[j] = "]"
              THEN Parsed([py |-> "list", elems |-> <<>>], j + 1)
              ELSE ParseElements(chars, j, <<>>)
    ELSE IF chars[i] \in Digits THEN ParseNumber(chars, i)
    ELSE NoParse

\* json.loads(chars): one value between optional whitespace, nothing after it.
JsonLoads(chars) ==
    LET r == ParseValue(chars, SkipWs(chars, 1)) IN
    IF r.ok /\ SkipWs(chars, r.next) = Len(chars) + 1 THEN r.v ELSE JSONDecodeError

\* pairs = {'{': '}', '[': ']'}
Pairs(ch) == IF ch = "{" THEN "}" ELSE "]"

\* The bracket-tracking loop with escape_next never set.
RECURSIVE ScanBrackets_NoEscape(_, _, _, _, _, _)
ScanBrackets_NoEscape(chars, start, i, stack, in_string, escape_next) ==
    IF i > Len(chars) THEN None
    ELSE LET ch == chars[i]
             in_str == IF ch = "\"" THEN ~in_string ELSE in_string
         IN
         IF in_str THEN ScanBrackets_NoEscape(chars, start, i + 1, stack, in_str, FALSE)
         ELSE IF ch \in {"{", "["}
              THEN ScanBrackets_NoEscape(chars, start, i + 1, Append(stack, Pairs(ch)),
                                         in_str, FALSE)
         ELSE IF ch \in {"}", "]"}
              THEN IF stack = <<>> THEN None
                   ELSE LET expected == stack[Len(stack)]
                            popped == SubSeq(stack, 1, Len(stack) - 1) IN
                        IF ch # expected THEN None
                        ELSE IF popped = <<>> THEN Str(SubSeq(chars, start, i))
                        ELSE ScanBrackets_NoEscape(chars, start, i + 1, popped, in_str, FALSE)
         ELSE ScanBrackets_NoEscape(chars, start, i + 1, stack, in_str, FALSE)

\* The bracket-tracking loop of extract_json_substring from index i.
RECURSIVE ScanBrackets(_, _, _, _, _, _)
ScanBrackets(chars, start, i, stack, in_string, escape_next) ==
    IF i > Len(chars) THEN None
    ELSE LET ch == chars[i]
             in_str == IF ch = "\"" /\ ~escape_next THEN ~in_string ELSE in_string
             esc == IF ch = "\\" /\ in_str THEN ~escape_next ELSE FALSE
         IN
         IF in_str THEN ScanBrackets(chars, start, i + 1, stack, in_str, esc)
         ELSE IF ch \in {"{", "["}
              THEN ScanBrackets(chars, start, i + 1, Append(stack, Pairs(ch)), in_str, esc)
         ELSE IF ch \in {"}", "]"}
              THEN IF stack = <<>> THEN None
                   ELSE LET expected == stack[Len(stack)]
                            popped == SubSeq(stack, 1, Len(stack) - 1) IN
                        IF ch # expected THEN None
                        ELSE IF popped = <<>> THEN Str(SubSeq(chars, start, i))
                        ELSE ScanBrackets(chars, start, i + 1, popped, in_str, esc)
         ELSE ScanBrackets(chars, start, i + 1, stack, in_str, esc)

\* Index of the first '{' or '[' at or after i, 0 when there is none.
RECURSIVE FirstOpener(_, _)
FirstOpener(chars, i) ==
    IF i > Len(chars) THEN 0
    ELSE IF chars[i] \in {"{", "["} THEN i
    ELSE FirstOpener(chars, i + 1)

\* The scan started again at each later opener until one gives a substring.
RECURSIVE ScanFromEachOpener(_, _)
ScanFromEachOpener(chars, start) ==
    IF start = 0 THEN None
    ELSE IF ScanBrackets(chars, start, start, <<>>, FALSE, FALSE) # None
    THEN ScanBrackets(chars, start, start, <<>>, FALSE, FALSE)
    ELSE ScanFromEachOpener(chars, FirstOpener(chars, start + 1))

\* extract_json_substring restarting at a later opener when the scan from
\* the first one gives nothing.
ExtractJsonSubstring_Restart(text) ==
    IF ~IsStr(text) THEN None
    ELSE ScanFromEachOpener(text.s, FirstOpener(text.s, 1))

\* JSONParser.extract_json_substring
ExtractJsonSubstring(text) ==
    IF ~IsStr(text) THEN None
    ELSE LET start == FirstOpener(text.s, 1) IN
         IF start = 0 THEN None
         ELSE ScanBrackets(text.s, start, start, <<>>, FALSE, FALSE)

\* parse_model_response without the try around the second json.loads.
ParseModelResponse_Unguarded(content) ==
    IF IsDictOrList(content) THEN content
    ELSE IF ~IsStr(content) THEN content
    ELSE IF JsonLoads(content.s) # JSONDecodeError THEN JsonLoads(content.s)
    ELSE LET json_str == ExtractJsonSubstring(content) IN
         IF json_str # None /\ json_str.s # <<>> THEN JsonLoads(json_str.s)
         ELSE content

\* parse_model_response giving None for a string it cannot parse.
ParseModelResponse_NoneOnFailure(content) ==
    IF IsDictOrList(content) THEN content
    ELSE IF ~IsStr(content) THEN content
    ELSE IF JsonLoads(content.s) # JSONDecodeError THEN JsonLoads(content.s)
    ELSE LET json_str == ExtractJsonSubstring(content) IN
         IF json_str # None /\ json_str.s # <<>> /\ JsonLoads(json_str.s) # JSONDecodeError
         THEN JsonLoads(json_str.s)
         ELSE None

\* JSONParser.parse_model_response
ParseModelResponse(content) ==
    IF IsDictOrList(content) THEN content
    ELSE IF ~IsStr(content) THEN content
    ELSE IF JsonLoads(content.s) # JSONDecodeError THEN JsonLoads(content.s)
    ELSE LET json_str == ExtractJsonSubstring(content) IN
         IF json_str # None /\ json_str.s # <<>> /\ JsonLoads(json_str.s) # JSONDecodeError
         THEN JsonLoads(json_str.s)
         ELSE content

\* ------------------------------------------------------------- exceptions
\* An exception object; str(e) is its msg.
Exc(type, msg) == [type |-> type, msg |-> msg]

\* A call's result: a returned value or a raised exception.
Return(v) == [ok |-> TRUE, value |-> v]

Raise(e) == [ok |-> FALSE, exc |-> e]

\* --------------------------------------------- utils/image_processor.py
\* PDF bytes, by what decoding and normalizing them does: `decode` is "ok"
\* or "error" (convert_from_bytes raises), `pages` is the number of pages the
\* decoder yields, `normalize` is "error" when resize_image or image_to_base64
\* raises on a page of this document.
Doc(id, decode, pages, normalize) ==
    [id |-> id, decode |-> decode, pages |-> pages, normalize |-> normalize]

DocsOf(id) ==
    {Doc(id, "error", 0, "ok")}
    \cup {Doc(id, "ok", n, "ok") : n \in 0..MaxPages}
    \cup {Doc(id, "ok", n, "error") : n \in 1..MaxPages}

Min(a, b) == IF a < b THEN a ELSE b

Abs(n) == IF n < 0 THEN -n ELSE n

\* ceil(a / b) for b > 0
CeilDiv(a, b) == IF a % b = 0 THEN a \div b ELSE (a \div b) + 1

\* Image.thumbnail leaving the image as it is.
Thumbnails_Unscaled(w, h, x, y) == {<<w, h>>}

\* PIL's Image.thumbnail((x, y)) on an image of w by h pixels: the sizes the
\* image can have afterwards.  round_aspect takes of floor and ceil the one
\* whose aspect ratio is nearer the image's, and at least 1; the distances
\* are floats, and when they are equal as fractions their rounding decides,
\* so both are possible.
Thumbnails(w, h, x, y) ==
    IF x >= w /\ y >= h THEN {<<w, h>>}
    ELSE IF x * h >= w * y
    THEN LET f == (y * w) \div h
             c == CeilDiv(y * w, h)
             kf == Abs(w * y - f * h)
             kc == Abs(w * y - c * h) IN
         {<<IF n < 1 THEN 1 ELSE n, y>> :
             n \in {m \in {f, c} : (m = f /\ kf <= kc) \/ (m = c /\ kc <= kf)}}
    ELSE LET f == (x * h) \div w
             c == CeilDiv(x * h, w)
             kf == Abs(w * f - x * h) * c
             kc == Abs(w * c - x * h) * f IN
         {<<x, IF n < 1 THEN 1 ELSE n>> :
             n \in {m \in {f, c} : IF f = 0 THEN m = f
                                   ELSE (m = f /\ kf <= kc) \/ (m = c /\ kc <= kf)}}

\* The rest of ImageProcessor.resize_image once the image has size `scaled`:
\* the size of the canvas returned, the size of the image pasted on it and
\* where it is pasted.
ResizeImage(scaled, target_size) ==
    LET paste_x == (target_size[1] - scaled[1]) \div 2
        paste_y == (target_size[2] - scaled[2]) \div 2 IN
    [size |-> target_size, pasted |-> scaled, paste |-> <<paste_x, paste_y>>]

\* The base64 JPEG of page i (0-based) of the document with these bytes.
B64Image(id, i) == [py |-> "b64", doc |-> id, page |-> i]

\* pdf_to_images keeping the last config.MAX_PDF_PAGES pages.
PdfToImages_KeepLast(doc) ==
    IF doc.decode = "error"
    THEN Raise(Exc("PDFProcessingError", [text |-> "PDF conversion failed"]))
    ELSE LET images == [i \in 1..doc.pages |-> i] IN
         IF Len(images) > MAX_PDF_PAGES
         THEN Return(SubSeq(images, Len(images) - MAX_PDF_PAGES + 1, Len(images)))
         ELSE Return(images)

\* ImageProcessor.pdf_to_images: the decoded pages (1-based numbers), cut to
\* config.MAX_PDF_PAGES.
PdfToImages(doc) ==
    IF doc.decode = "error"
    THEN Raise(Exc("PDFProcessingError", [text |-> "PDF conversion failed"]))
    ELSE LET images == [i \in 1..doc.pages |-> i] IN
         IF Len(images) > MAX_PDF_PAGES
         THEN Return(SubSeq(images, 1, MAX_PDF_PAGES))
         ELSE Return(images)

\* pdf_to_base64_images giving an empty list where rasterizing fails.
PdfToBase64Images_EmptyOnError(doc) ==
    LET r == PdfToImages(doc) IN
    IF ~r.ok THEN Return(<<>>)
    ELSE IF Len(r.value) > 0 /\ doc.normalize = "error" THEN Return(<<>>)
    ELSE Return([k \in 1..Len(r.value) |-> B64Image(doc.id, r.value[k] - 1)])

\* ImageProcessor.pdf_to_base64_images
PdfToBase64Images(doc) ==
    LET r == PdfToImages(doc) IN
    IF ~r.ok THEN r
    ELSE IF Len(r.value) > 0 /\ doc.normalize = "error"
    THEN Raise(Exc("ImageProcessingError", [text |-> "Image resize failed"]))
    ELSE Return([k \in 1..Len(r.value) |-> B64Image(doc.id, r.value[k] - 1)])

\* ------------------------------------------------ services/vlm_service.py
\* What one requests.post + raise_for_status + json() does.
StatusCodes == {400, 500}

Bodies == {"body"}

\* The raw contents a model returns: a JSON object, prose, and null.
Contents == {Str(<<"{", "}">>), Str(<<"a">>), None}

PyList(elems) == [py |-> "list", elems |-> elems]

\* A chat-completions body {"choices": [{"message": {"content": c}}]}
ChatResponse(c) ==
    [py |-> "dict",
     choices |-> PyList(<< [py |-> "dict",
                            message |-> [py |-> "dict", content |-> c]] >>)]

\* 2xx bodies without the expected fields: {"choices": []} and
\* {"choices": null}.
MalformedResponses ==
    {[py |-> "dict", choices |-> PyList(<<>>)],
     [py |-> "dict", choices |-> None]}

Responses == {ChatResponse(c) : c \in Contents} \cup MalformedResponses

Outcomes ==
    {[kind |-> "Timeout"], [kind |-> "RequestException"]}
    \cup {[kind |-> "HTTPError", status_code |-> st, text |-> b] :
             st \in StatusCodes, b \in Bodies}
    \cup {[kind |-> "ok", json |-> r] : r \in Responses}

\* The sleep-and-recurse step sleeping retry_delay before every retry.
RetryStep_ConstantDelay(retry_count) == [do |-> "retry", sleep |-> RETRY_DELAY]

\* The sleep-and-recurse and the raise steps of _make_request.
RetryStep(retry_count) == [do |-> "retry", sleep |-> RETRY_DELAY * (retry_count + 1)]

RaiseStep(msg) == [do |-> "raise", exc |-> Exc("VLMAPIError", msg)]

TimeoutMsg(max_retries_) == [text |-> "Request timeout after", attempts |-> max_retries_ + 1]

HttpErrorMsg(outcome) ==
    [text |-> "HTTP error", status_code |-> outcome.status_code, body |-> outcome.text]

\* _make_request with the timeout branch testing retry_count <= max_retries.
MakeRequest_RetryPastLimit(outcome, retry_count, max_retries_) ==
    IF outcome.kind = "ok" THEN [do |-> "return", value |-> outcome.json]
    ELSE IF outcome.kind = "Timeout"
    THEN IF retry_count <= max_retries_ THEN RetryStep(retry_count)
         ELSE RaiseStep(TimeoutMsg(max_retries_))
    ELSE IF outcome.kind = "HTTPError"
    THEN IF retry_count < max_retries_ /\ outcome.status_code >= 500
         THEN RetryStep(retry_count)
         ELSE RaiseStep(HttpErrorMsg(outcome))
    ELSE IF retry_count < max_retries_ THEN RetryStep(retry_count)
         ELSE RaiseStep([text |-> "Request failed"])

\* _make_request with the HTTP error branch retrying every status >= 400.
MakeRequest_Retry4xx(outcome, retry_count, max_retries_) ==
    IF outcome.kind = "ok" THEN [do |-> "return", value |-> outcome.json]
    ELSE IF outcome.kind = "Timeout"
    THEN IF retry_count < max_retries_ THEN RetryStep(retry_count)
         ELSE RaiseStep(TimeoutMsg(max_retries_))
    ELSE IF outcome.kind = "HTTPError"
    THEN IF retry_count < max_retries_ /\ outcome.status_code >= 400
         THEN RetryStep(retry_count)
         ELSE RaiseStep(HttpErrorMsg(outcome))
    ELSE IF retry_count < max_retries_ THEN RetryStep(retry_count)
         ELSE RaiseStep([text |-> "Request failed"])

\* _make_request with the RequestException branch raising at once.
MakeRequest_NoTransportRetry(outcome, retry_count, max_retries_) ==
    IF outcome.kind = "ok" THEN [do |-> "return", value |-> outcome.json]
    ELSE IF outcome.kind = "Timeout"
    THEN IF retry_count < max_retries_ THEN RetryStep(retry_count)
         ELSE RaiseStep(TimeoutMsg(max_retries_))
    ELSE IF outcome.kind = "HTTPError"
    THEN IF retry_count < max_retries_ /\ outcome.status_code >= 500
         THEN RetryStep(retry_count)
         ELSE RaiseStep(HttpErrorMsg(outcome))
    ELSE RaiseStep([text |-> "Request failed"])

\* One invocation of VLMService._make_request, given what its HTTP attempt
\* did: return the body, sleep and recurse with retry_count + 1, or raise.
MakeRequest(outcome, retry_count, max_retries_) ==
    IF outcome.kind = "ok" THEN [do |-> "return", value |-> outcome.json]
    ELSE IF outcome.kind = "Timeout"
    THEN IF retry_count < max_retries_ THEN RetryStep(retry_count)
         ELSE RaiseStep(TimeoutMsg(max_retries_))
    ELSE IF outcome.kind = "HTTPError"
    THEN IF retry_count < max_retries_ /\ outcome.status_code >= 500
         THEN RetryStep(retry_count)
         ELSE RaiseStep(HttpErrorMsg(outcome))
    ELSE IF retry_count < max_retries_ THEN RetryStep(retry_count)
         ELSE RaiseStep([text |-> "Request failed"])

\* v[key] for a key that is a field name, or the index 0.
Subscript(v, key) ==
    IF v.py = "dict"
    THEN IF key \in DOMAIN v THEN Return(v[key])
         ELSE Raise(Exc("KeyError", [text |-> key]))
    ELSE IF v.py = "list" /\ key = "0"
    THEN IF Len(v.elems) > 0 THEN Return(v.elems[1])
         ELSE Raise(Exc("IndexError", [text |-> "list index out of range"]))
    ELSE Raise(Exc("TypeError", [text |-> "not subscriptable"]))

\* response["choices"][0]["message"]["content"]
GetContent(response) ==
    LET a == Subscript(response, "choices") IN
    IF ~a.ok THEN a
    ELSE LET b == Subscript(a.value, "0") IN
         IF ~b.ok THEN b
         ELSE LET c == Subscript(b.value, "message") IN
              IF ~c.ok THEN c ELSE Subscript(c.value, "content")

\* The rest of generate_schema_from_template and extract_answers_from_form
\* after _make_request: a KeyError or IndexError of the content lookup
\* becomes VLMAPIError, anything else propagates as it is.
ParseCallResult(call_result) ==
    IF ~call_result.ok THEN call_result
    ELSE LET c == GetContent(call_result.value) IN
         IF c.ok THEN Return(ParseModelResponse(c.value))
         ELSE IF c.exc.type \in {"KeyError", "IndexError"}
         THEN Raise(Exc("VLMAPIError",
                        [text |-> "Invalid response format", cause |-> c.exc.msg]))
         ELSE c

\* generate_schema_from_template giving None where _make_request raised.
GenerateSchemaFromTemplate_Swallow(call_result) ==
    IF ~call_result.ok THEN Return(None) ELSE ParseCallResult(call_result)

\* VLMService.generate_schema_from_template, from its _make_request result.
GenerateSchemaFromTemplate(call_result) == ParseCallResult(call_result)

\* VLMService.extract_answers_from_form, from its _make_request result.
ExtractAnswersFromForm(call_result) == ParseCallResult(call_result)

\* The payload with response_format added whatever the schema is.
ExtractPayload_AnySchema(image_base64, schema) ==
    [image |-> image_base64, schema |-> schema,
     response_format |-> [type |-> "json_schema", schema |-> schema]]

\* The payload of extract_answers_from_form: response_format is added when
\* the schema is a dict.
ExtractPayload(image_base64, schema) ==
    IF IsDict(schema)
    THEN [image |-> image_base64, schema |-> schema,
          response_format |-> [type |-> "json_schema", schema |-> schema]]
    ELSE [image |-> image_base64, schema |-> schema]

\* qualtrics_html[:5000]
HTML_LIMIT == 5000

\* VLMService.map_qualtrics_fields returning the error's message where the
\* client raised VLMAPIError.
VlmMapQualtricsFields_ErrorAsMapping(call_result) ==
    IF ~call_result.ok
    THEN IF call_result.exc.type = "VLMAPIError"
         THEN Return([py |-> "dict", error |-> call_result.exc.msg])
         ELSE call_result
    ELSE LET c == GetContent(call_result.value) IN
         IF c.ok THEN Return(ParseModelResponse(c.value))
         ELSE IF c.exc.type \in {"KeyError", "IndexError"} THEN Return(None)
         ELSE c

\* VLMService.map_qualtrics_fields, from its _make_request result:
\* VLMAPIError, KeyError and IndexError give None.
VlmMapQualtricsFields(call_result) ==
    IF ~call_result.ok
    THEN IF call_result.exc.type = "VLMAPIError" THEN Return(None) ELSE call_result
    ELSE LET c == GetContent(call_result.value) IN
         IF c.ok THEN Return(ParseModelResponse(c.value))
         ELSE IF c.exc.type \in {"KeyError", "IndexError"} THEN Return(None)
         ELSE c

\* -------------------------------------- services/extraction_service.py
\* ExtractionService.fetch_qualtrics_html, given what the GET does.
FetchQualtricsHtml(url, fetch) ==
    IF ~Truthy(url) \/ Strip(url.s) = <<>> THEN Return(Str(<<>>))
    ELSE IF fetch.kind = "ok" THEN Return(fetch.text)
    ELSE Raise(Exc("QualtricsError",
                   [text |-> "Failed to fetch Qualtrics page", cause |-> fetch.kind]))

\* Whether the qualtrics stage sends the GET: extract_batch's test of the
\* URL and the test at the head of ExtractionService.map_qualtrics_fields.
Fetches(url) == Truthy(url) /\ Strip(url.s) # <<>>

\* The qualtrics stage without the except QualtricsError clause.
QualtricsStage_NoCatch(url, schemas_, fetch) ==
    IF ~Fetches(url) THEN [do |-> "none"]
    ELSE LET html_content == FetchQualtricsHtml(url, fetch) IN
         IF ~html_content.ok THEN [do |-> "raise", exc |-> html_content.exc]
         ELSE IF Strip(html_content.value.s) = <<>> THEN [do |-> "none"]
         ELSE [do |-> "call",
               payload |-> [html |-> SubSeq(html_content.value.s, 1,
                                            Min(Len(html_content.value.s),
                                                HTML_LIMIT)),
                            schemas |-> schemas_]]

\* The qualtrics stage up to the mapping call: the mapping is None without a
\* call ("none"), the VLM mapping call starts ("call"), or an exception
\* leaves ExtractionService.map_qualtrics_fields ("raise").
QualtricsStage(url, schemas_, fetch) ==
    IF ~Fetches(url) THEN [do |-> "none"]
    ELSE LET html_content == FetchQualtricsHtml(url, fetch) IN
         IF ~html_content.ok
         THEN IF html_content.exc.type = "QualtricsError" THEN [do |-> "none"]
              ELSE [do |-> "raise", exc |-> html_content.exc]
         ELSE IF Strip(html_content.value.s) = <<>> THEN [do |-> "none"]
         ELSE [do |-> "call",
               payload |-> [html |-> SubSeq(html_content.value.s, 1,
                                            Min(Len(html_content.value.s),
                                                HTML_LIMIT)),
                            schemas |-> schemas_]]

\* The schema selection taking the first schema for every page.
SelectSchema_FirstSchema(schemas_, page_idx_) ==
    IF Len(schemas_) > 0 THEN Return(schemas_[1])
    ELSE Raise(Exc("IndexError", [text |-> "list index out of range"]))

\* The schema selection falling back to the last schema.
SelectSchema_LastSchema(schemas_, page_idx_) ==
    IF page_idx_ < Len(schemas_) THEN Return(schemas_[page_idx_ + 1])
    ELSE IF Len(schemas_) > 0 THEN Return(schemas_[Len(schemas_)])
    ELSE Raise(Exc("IndexError", [text |-> "list index out of range"]))

\* schemas[page_idx] if page_idx < len(schemas) else schemas[0]
SelectSchema(schemas_, page_idx_) ==
    IF page_idx_ < Len(schemas_) THEN Return(schemas_[page_idx_ + 1])
    ELSE IF Len(schemas_) > 0 THEN Return(schemas_[1])
    ELSE Raise(Exc("IndexError", [text |-> "list index out of range"]))

\* The except clauses of generate_schemas_from_template.
SchemaGenerationError(e) ==
    IF e.type = "PDFProcessingError"
    THEN Exc("SchemaGenerationError",
             [text |-> "Failed to process template PDF", cause |-> e.msg])
    ELSE Exc("SchemaGenerationError",
             [text |-> "Schema generation failed", cause |-> e.msg])

\* The dict extract_batch returns on SchemaGenerationError.
ErrorBatchResult(e) ==
    [status |-> "error", error |-> e.msg, json_schemas |-> <<>>, results |-> <<>>,
     template_base64_images |-> <<>>, qualtrics_mapping |-> None]

\* qualtrics_url or ""
OrEmpty(url) == IF Truthy(url) THEN url ELSE Str(<<>>)

\* The final dict with status error as soon as a file result has it.
SuccessBatchResult_WorstStatus(schemas_, results_, template_images_, qualtrics_mapping_, url) ==
    [status |-> IF \E i \in 1..Len(results_) : results_[i].status = "error"
                THEN "error" ELSE "success",
     json_schemas |-> schemas_, results |-> results_,
     template_base64_images |-> template_images_,
     qualtrics_mapping |-> qualtrics_mapping_,
     received_qualtrics_link |-> OrEmpty(url)]

\* The final dict with the template images in reverse page order.
SuccessBatchResult_ReversedImages(schemas_, results_, template_images_, qualtrics_mapping_, url) ==
    [status |-> "success", json_schemas |-> schemas_, results |-> results_,
     template_base64_images |->
         [i \in 1..Len(template_images_) |->
             template_images_[Len(template_images_) + 1 - i]],
     qualtrics_mapping |-> qualtrics_mapping_,
     received_qualtrics_link |-> OrEmpty(url)]

\* The dict extract_batch returns at its end.
SuccessBatchResult(schemas_, results_, template_images_, qualtrics_mapping_, url) ==
    [status |-> "success", json_schemas |-> schemas_, results |-> results_,
     template_base64_images |-> template_images_,
     qualtrics_mapping |-> qualtrics_mapping_,
     received_qualtrics_link |-> OrEmpty(url)]

\* The result dict extract_from_pdf starts with.
NewFileResult(filename) ==
    [filename |-> filename, pages |-> <<>>, base64_images |-> <<>>,
     status |-> "success", error |-> None]

\* The except clauses of extract_from_pdf around the whole file.
FileError(result_, e) ==
    [result_ EXCEPT
        !.status = "error",
        !.error = IF e.type = "PDFProcessingError"
                  THEN [text |-> "PDF processing failed", cause |-> e.msg]
                  ELSE [text |-> "Unexpected error", cause |-> e.msg]]

\* The page dict without the page image where the extraction failed.
PageResult_NoImageOnError(page_idx_, img_b64, outcome) ==
    IF outcome.ok
    THEN [page_index |-> page_idx_, answers |-> outcome.value,
          base64_image |-> img_b64, status |-> "success"]
    ELSE [page_index |-> page_idx_, answers |-> None, base64_image |-> None,
          status |-> "error", error |-> outcome.exc.msg]

\* The page dict appended for the outcome of extract_answers_from_form.
PageResult(page_idx_, img_b64, outcome) ==
    IF outcome.ok
    THEN [page_index |-> page_idx_, answers |-> outcome.value,
          base64_image |-> img_b64, status |-> "success"]
    ELSE [page_index |-> page_idx_, answers |-> None, base64_image |-> img_b64,
          status |-> "error", error |-> outcome.exc.msg]

\* ------------------------------------------------------------------ state
VARIABLES
    max_retries,        \* VLMService.max_retries
    template_bytes,     \* extract_batch argument
    pdf_files,          \* extract_batch argument: (filename, bytes) tuples
    qualtrics_url,      \* extract_batch argument
    pc,                 \* where extract_batch is
    schemas,            \* the schema list built from the template
    template_images,    \* extract_batch's second rasterization of the template
    qualtrics_mapping,
    results,            \* extract_batch's list of file results
    result,             \* extract_from_pdf's result dict, None outside it
    images_b64,         \* the page images the running loop iterates over
    idx,                \* generate_schemas_from_template's loop index
    page_idx,           \* extract_from_pdf's loop index
    file_idx,           \* number of files extract_batch's loop has finished
    call,               \* the logical VLM call in progress or just ended
    ret,                \* what extract_batch returned or raised, None before
    calls,              \* logical VLM calls started
    html_fetch,         \* what the GET of the survey page did, None if not sent
    eval                \* a function of utils/ called on its own, None in a batch

inputs == <<max_retries, template_bytes, pdf_files, qualtrics_url>>

vars == <<max_retries, template_bytes, pdf_files, qualtrics_url, pc, schemas,
          template_images, qualtrics_mapping, results, result, images_b64, idx,
          page_idx, file_idx, call, ret, calls, html_fetch, eval>>

NoCall == [kind |-> "none"]

\* A logical call entering _make_request with retry_count = 0.
NewCall(kind, payload) ==
    [kind |-> kind, payload |-> payload, retry_count |-> 0, attempts |-> <<>>,
     slept |-> <<>>]

\* The names of the uploads, by position.
Filenames == <<"a.pdf", "b.pdf", "c.pdf", "d.pdf">>

Urls == {None, Str(<<>>), Str(<<" ">>), Str(<<"u">>)}

\* What the GET of the survey page does.
FetchOutcomes ==
    {[kind |-> "ok", text |-> Str(<<>>)], [kind |-> "ok", text |-> Str(<<" ">>)],
     [kind |-> "ok", text |-> Str(<<"h">>)],
     [kind |-> "HTTPError"], [kind |-> "RequestException"]}

\* The number of pages rasterizing a document yields.
Rasterized(doc) == IF PdfToBase64Images(doc).ok THEN Len(PdfToBase64Images(doc).value) ELSE 0

Max(a, b) == IF a > b THEN a ELSE b

RECURSIVE Work(_)
Work(files) ==
    IF files = <<>> THEN 0
    ELSE Max(1, Rasterized(Head(files).bytes)) + Work(Tail(files))

\* The file lists of a batch: up to MaxFiles uploads, named by position.
FileLists ==
    UNION {{files \in [1..n -> [filename : {Filenames[i] : i \in 1..n},
                                bytes : UNION {DocsOf(i) : i \in 1..n}]] :
               \A i \in 1..n : /\ files[i].bytes.id = i
                               /\ files[i].filename = Filenames[i]} : n \in 0..MaxFiles}

\* The state extract_batch starts in, for a client configured with one of
\* `retries` and a batch of at most `work` units.
InitWith(retries, work) ==
    /\ max_retries \in retries
    /\ template_bytes \in DocsOf(0)
    /\ pdf_files \in FileLists
    /\ Rasterized(template_bytes) + Work(pdf_files) <= work
    /\ qualtrics_url \in Urls
    /\ pc = "start"
    /\ schemas = <<>>
    /\ template_images = <<>>
    /\ qualtrics_mapping = None
    /\ results = <<>>
    /\ result = None
    /\ images_b64 = <<>>
    /\ idx = 0
    /\ page_idx = 0
    /\ file_idx = 0
    /\ call = NoCall
    /\ ret = None
    /\ calls = 0
    /\ html_fetch = None
    /\ eval = None

Init == InitWith({MAX_RETRIES}, MaxWork)

\* ---------------------------------------------------------------- actions
\* extract_batch returns or raises: its locals are gone.
Finish(outcome) ==
    /\ ret' = outcome
    /\ pc' = "done"
    /\ result' = None
    /\ images_b64' = <<>>
    /\ idx' = 0
    /\ page_idx' = 0
    /\ call' = NoCall

\* extract_batch enters generate_schemas_from_template, which rasterizes the
\* template; a failure becomes SchemaGenerationError and the error result.
GenerateSchemasFromTemplate ==
    /\ pc = "start"
    /\ LET r == PdfToBase64Images(template_bytes) IN
       IF r.ok
       THEN /\ images_b64' = r.value
            /\ idx' = 0
            /\ pc' = "schema_loop"
            /\ UNCHANGED <<result, page_idx, call, ret>>
       ELSE Finish(Return(ErrorBatchResult(SchemaGenerationError(r.exc))))
    /\ UNCHANGED <<inputs, eval, schemas, template_images, qualtrics_mapping, results,
                   file_idx, calls, html_fetch>>

\* The head of the loop over the template pages: the next page's schema call
\* starts, or the loop is over and extract_batch rasterizes the template a
\* second time, inside a try that catches SchemaGenerationError only.
SchemaLoop ==
    /\ pc = "schema_loop"
    /\ IF idx < Len(images_b64)
       THEN /\ call' = NewCall("schema", [image |-> images_b64[idx + 1]])
            /\ calls' = calls + 1
            /\ pc' = "http"
            /\ UNCHANGED <<template_images, images_b64, idx, result, page_idx, ret>>
       ELSE LET r == PdfToBase64Images(template_bytes) IN
            IF r.ok
            THEN /\ template_images' = r.value
                 /\ images_b64' = <<>>
                 /\ idx' = 0
                 /\ pc' = "qualtrics"
                 /\ UNCHANGED <<result, page_idx, call, ret, calls>>
            ELSE /\ Finish(Raise(r.exc))
                 /\ UNCHANGED <<template_images, calls>>
    /\ UNCHANGED <<inputs, eval, schemas, qualtrics_mapping, results, file_idx, html_fetch>>

\* One invocation of _make_request: the POST and what follows from it, on
\* the variables of the batch.
MakeRequestStep(outcome) ==
    /\ pc = "http"
    /\ LET step == MakeRequest(outcome, call.retry_count, max_retries)
           tried == [call EXCEPT !.attempts = Append(@, outcome)] IN
       IF step.do = "retry"
       THEN /\ call' = [tried EXCEPT !.retry_count = @ + 1,
                                     !.slept = Append(@, step.sleep)]
            /\ pc' = "http"
       ELSE /\ call' = [kind |-> tried.kind, payload |-> tried.payload,
                        retry_count |-> tried.retry_count,
                        attempts |-> tried.attempts, slept |-> tried.slept,
                        result |-> IF step.do = "return" THEN Return(step.value)
                                   ELSE Raise(step.exc)]
            /\ pc' = "returned"
    /\ UNCHANGED <<inputs, schemas, template_images, qualtrics_mapping, results,
                   result, images_b64, idx, page_idx, file_idx, ret, calls, html_fetch>>

\* One invocation of _make_request within a batch.
HttpAttempt(outcome) == MakeRequestStep(outcome) /\ UNCHANGED eval

\* generate_schema_from_template ends and extract_batch goes on to the
\* qualtrics stage without the template's remaining pages.
GenerateSchemaReturn_SkipRest ==
    /\ pc = "returned"
    /\ call.kind = "schema"
    /\ LET r == GenerateSchemaFromTemplate(call.result) IN
       IF r.ok
       THEN /\ schemas' = Append(schemas, r.value)
            /\ idx' = 0
            /\ images_b64' = <<>>
            /\ pc' = "qualtrics"
            /\ call' = NoCall
            /\ UNCHANGED <<result, page_idx, ret>>
       ELSE /\ Finish(Return(ErrorBatchResult(SchemaGenerationError(r.exc))))
            /\ UNCHANGED schemas
    /\ UNCHANGED <<inputs, eval, template_images, qualtrics_mapping, results, file_idx,
                   calls, html_fetch>>

\* generate_schema_from_template ends and the schema is put at the head of
\* the list.
GenerateSchemaReturn_Prepend ==
    /\ pc = "returned"
    /\ call.kind = "schema"
    /\ LET r == GenerateSchemaFromTemplate(call.result) IN
       IF r.ok
       THEN /\ schemas' = <<r.value>> \o schemas
            /\ idx' = idx + 1
            /\ pc' = "schema_loop"
            /\ call' = NoCall
            /\ UNCHANGED <<result, images_b64, page_idx, ret>>
       ELSE /\ Finish(Return(ErrorBatchResult(SchemaGenerationError(r.exc))))
            /\ UNCHANGED schemas
    /\ UNCHANGED <<inputs, eval, template_images, qualtrics_mapping, results, file_idx,
                   calls, html_fetch>>

\* generate_schema_from_template ends: the schema is appended, or the
\* exception leaves generate_schemas_from_template as SchemaGenerationError
\* and extract_batch returns the error result.
GenerateSchemaReturn ==
    /\ pc = "returned"
    /\ call.kind = "schema"
    /\ LET r == GenerateSchemaFromTemplate(call.result) IN
       IF r.ok
       THEN /\ schemas' = Append(schemas, r.value)
            /\ idx' = idx + 1
            /\ pc' = "schema_loop"
            /\ call' = NoCall
            /\ UNCHANGED <<result, images_b64, page_idx, ret>>
       ELSE /\ Finish(Return(ErrorBatchResult(SchemaGenerationError(r.exc))))
            /\ UNCHANGED schemas
    /\ UNCHANGED <<inputs, eval, template_images, qualtrics_mapping, results, file_idx,
                   calls, html_fetch>>

\* The qualtrics stage of extract_batch up to the mapping call.
MapQualtricsFields(fetch) ==
    /\ pc = "qualtrics"
    /\ html_fetch' = IF Fetches(qualtrics_url) THEN Str(fetch.kind) ELSE None
    /\ LET stage == QualtricsStage(qualtrics_url, schemas, fetch) IN
       IF stage.do = "call"
       THEN /\ call' = NewCall("mapping", stage.payload)
            /\ calls' = calls + 1
            /\ pc' = "http"
            /\ UNCHANGED <<result, images_b64, idx, page_idx, ret>>
       ELSE IF stage.do = "none"
       THEN /\ pc' = "files"
            /\ UNCHANGED <<result, images_b64, idx, page_idx, ret, call, calls>>
       ELSE /\ Finish(Raise(stage.exc))
            /\ UNCHANGED calls
    /\ UNCHANGED <<inputs, eval, schemas, template_images, qualtrics_mapping, results,
                   file_idx>>

\* VLMService.map_qualtrics_fields ends: a mapping or None; an exception it
\* does not catch is not caught by its callers either.
MapQualtricsReturn ==
    /\ pc = "returned"
    /\ call.kind = "mapping"
    /\ LET r == VlmMapQualtricsFields(call.result) IN
       IF r.ok
       THEN /\ qualtrics_mapping' = r.value
            /\ pc' = "files"
            /\ call' = NoCall
            /\ UNCHANGED <<result, images_b64, idx, page_idx, ret>>
       ELSE /\ Finish(Raise(r.exc))
            /\ UNCHANGED qualtrics_mapping
    /\ UNCHANGED <<inputs, eval, schemas, template_images, results, file_idx, calls,
                   html_fetch>>

\* The head of extract_batch's loop over the files: extract_from_pdf starts
\* on the next file and rasterizes it, or extract_batch returns.
ExtractFromPdf ==
    /\ pc = "files"
    /\ IF file_idx < Len(pdf_files)
       THEN LET file == pdf_files[file_idx + 1]
                r == PdfToBase64Images(file.bytes) IN
            IF r.ok
            THEN /\ result' = [NewFileResult(file.filename)
                                  EXCEPT !.base64_images = r.value]
                 /\ images_b64' = r.value
                 /\ page_idx' = 0
                 /\ pc' = "page_loop"
                 /\ UNCHANGED <<results, file_idx, idx, call, ret>>
            ELSE /\ results' = Append(results,
                                      FileError(NewFileResult(file.filename), r.exc))
                 /\ file_idx' = file_idx + 1
                 /\ UNCHANGED <<pc, result, images_b64, page_idx, idx, call, ret>>
       ELSE /\ Finish(Return(SuccessBatchResult(schemas, results, template_images,
                                                qualtrics_mapping, qualtrics_url)))
            /\ UNCHANGED <<results, file_idx>>
    /\ UNCHANGED <<inputs, eval, schemas, template_images, qualtrics_mapping, calls,
                   html_fetch>>

\* The page loop sending every page's request without waiting for the
\* previous page's response.
PageLoop_NoWait ==
    /\ pc = "page_loop"
    /\ IF page_idx < Len(images_b64)
       THEN LET schema == SelectSchema(schemas, page_idx) IN
            IF schema.ok
            THEN /\ call' = NewCall("extract",
                                    ExtractPayload(images_b64[page_idx + 1],
                                                   schema.value))
                 /\ calls' = calls + 1
                 /\ page_idx' = page_idx + 1
                 /\ pc' = IF page_idx + 1 < Len(images_b64) THEN "page_loop" ELSE "http"
                 /\ UNCHANGED <<results, result, images_b64, file_idx>>
            ELSE /\ results' = Append(results, FileError(result, schema.exc))
                 /\ file_idx' = file_idx + 1
                 /\ result' = None
                 /\ images_b64' = <<>>
                 /\ page_idx' = 0
                 /\ pc' = "files"
                 /\ UNCHANGED <<call, calls>>
       ELSE /\ results' = Append(results, result)
            /\ file_idx' = file_idx + 1
            /\ result' = None
            /\ images_b64' = <<>>
            /\ page_idx' = 0
            /\ pc' = "files"
            /\ UNCHANGED <<call, calls>>
    /\ UNCHANGED <<inputs, eval, schemas, template_images, qualtrics_mapping, idx, ret,
                   html_fetch>>

\* The head of extract_from_pdf's loop over the pages: the schema is picked
\* (outside the per-page try) and the page's call starts, or the file is done.
PageLoop ==
    /\ pc = "page_loop"
    /\ IF page_idx < Len(images_b64)
       THEN LET schema == SelectSchema(schemas, page_idx) IN
            IF schema.ok
            THEN /\ call' = NewCall("extract",
                                    ExtractPayload(images_b64[page_idx + 1],
                                                   schema.value))
                 /\ calls' = calls + 1
                 /\ pc' = "http"
                 /\ UNCHANGED <<results, result, images_b64, page_idx, file_idx>>
            ELSE /\ results' = Append(results, FileError(result, schema.exc))
                 /\ file_idx' = file_idx + 1
                 /\ result' = None
                 /\ images_b64' = <<>>
                 /\ page_idx' = 0
                 /\ pc' = "files"
                 /\ UNCHANGED <<call, calls>>
       ELSE /\ results' = Append(results, result)
            /\ file_idx' = file_idx + 1
            /\ result' = None
            /\ images_b64' = <<>>
            /\ page_idx' = 0
            /\ pc' = "files"
            /\ UNCHANGED <<call, calls>>
    /\ UNCHANGED <<inputs, eval, schemas, template_images, qualtrics_mapping, idx, ret,
                   html_fetch>>

\* extract_answers_from_form ends: the page's dict is appended, with the
\* answers or with the error of whatever exception was raised.
ExtractAnswersReturn ==
    /\ pc = "returned"
    /\ call.kind = "extract"
    /\ result' = [result EXCEPT
                     !.pages = Append(@, PageResult(page_idx,
                                                    images_b64[page_idx + 1],
                                                    ExtractAnswersFromForm(call.result)))]
    /\ page_idx' = page_idx + 1
    /\ pc' = "page_loop"
    /\ call' = NoCall
    /\ UNCHANGED <<inputs, eval, schemas, template_images, qualtrics_mapping, results,
                   images_b64, idx, file_idx, ret, calls, html_fetch>>

Next ==
    \/ GenerateSchemasFromTemplate
    \/ SchemaLoop
    \/ \E outcome \in Outcomes : HttpAttempt(outcome)
    \/ GenerateSchemaReturn
    \/ \E fetch \in FetchOutcomes : MapQualtricsFields(fetch)
    \/ MapQualtricsReturn
    \/ ExtractFromPdf
    \/ PageLoop
    \/ ExtractAnswersReturn

Spec == Init /\ [][Next]_vars

\* The same steps for a client configured with any max_retries up to
\* MaxRetries, on a batch of a one-page template, one one-page upload and a
\* survey URL.
InitRetry ==
    /\ InitWith(0..MaxRetries, MaxWork)
    /\ Rasterized(template_bytes) = 1
    /\ Len(pdf_files) = 1
    /\ Rasterized(pdf_files[1].bytes) = 1
    /\ qualtrics_url = Str(<<"u">>)

SpecRetry == InitRetry /\ [][Next]_vars

\* The same steps for a client that does not retry, on a batch of one upload
\* that rasterizes to more pages than the template, which has at least one.
InitPages ==
    /\ InitWith({0}, 2 * MAX_PDF_PAGES)
    /\ Rasterized(template_bytes) >= 1
    /\ Len(pdf_files) = 1
    /\ Rasterized(pdf_files[1].bytes) > Rasterized(template_bytes)

SpecPages == InitPages /\ [][Next]_vars

\* extract_batch called twice on the same template and files, by a client
\* that does not retry: first without a survey URL, then with any URL, the
\* schema and extraction calls of the second batch getting the outcomes those
\* of the first batch got. eval holds the first batch's outcomes (log), what
\* it returned (first), the position in the log (pos), and whether the second
\* batch made a schema or extraction call the first did not make (beyond).
InitTwice ==
    /\ max_retries = 0
    /\ template_bytes \in DocsOf(0)
    /\ pdf_files \in FileLists
    /\ Rasterized(template_bytes) + Work(pdf_files) <= 2
    /\ qualtrics_url = None
    /\ pc = "start"
    /\ schemas = <<>>
    /\ template_images = <<>>
    /\ qualtrics_mapping = None
    /\ results = <<>>
    /\ result = None
    /\ images_b64 = <<>>
    /\ idx = 0
    /\ page_idx = 0
    /\ file_idx = 0
    /\ call = NoCall
    /\ ret = None
    /\ calls = 0
    /\ html_fetch = None
    /\ eval = [log |-> <<>>, first |-> None, pos |-> 1, beyond |-> FALSE]

\* A step of either batch other than an HTTP attempt.
BatchStep ==
    \/ GenerateSchemasFromTemplate
    \/ SchemaLoop
    \/ GenerateSchemaReturn
    \/ \E fetch \in FetchOutcomes : MapQualtricsFields(fetch)
    \/ MapQualtricsReturn
    \/ ExtractFromPdf
    \/ PageLoop
    \/ ExtractAnswersReturn

\* An HTTP attempt of the first batch: its outcome is recorded.
FirstBatchAttempt(outcome) ==
    /\ eval.first = None
    /\ MakeRequestStep(outcome)
    /\ eval' = [eval EXCEPT !.log = Append(@, outcome)]

\* An HTTP attempt of the second batch: a schema or extraction call gets the
\* recorded outcome, the mapping call any outcome.
SecondBatchAttempt(outcome) ==
    /\ eval.first # None
    /\ MakeRequestStep(outcome)
    /\ IF call.kind = "mapping" THEN eval' = eval
       ELSE IF eval.pos <= Len(eval.log)
       THEN /\ outcome = eval.log[eval.pos]
            /\ eval' = [eval EXCEPT !.pos = @ + 1]
       ELSE eval' = [eval EXCEPT !.beyond = TRUE]

\* The second call of extract_batch, with a survey URL or without.
SecondBatch ==
    /\ pc = "done"
    /\ eval.first = None
    /\ eval' = [eval EXCEPT !.first = ret]
    /\ qualtrics_url' \in Urls
    /\ pc' = "start"
    /\ schemas' = <<>>
    /\ template_images' = <<>>
    /\ qualtrics_mapping' = None
    /\ results' = <<>>
    /\ ret' = None
    /\ calls' = 0
    /\ file_idx' = 0
    /\ UNCHANGED <<max_retries, template_bytes, pdf_files, result, images_b64, idx,
                   page_idx, call, html_fetch>>

NextTwice ==
    \/ BatchStep
    \/ \E outcome \in Outcomes : FirstBatchAttempt(outcome)
    \/ \E outcome \in Outcomes : SecondBatchAttempt(outcome)
    \/ SecondBatch

SpecTwice == InitTwice /\ [][NextTwice]_vars

\* ------------------------------------------------------------------ api.py
\* api.pdf_to_base64_images: every decoded page, resized and encoded; any
\* failure leaves it as the exception raised.
ApiPdfToBase64Images(doc) ==
    IF doc.decode = "error"
    THEN Raise(Exc("Exception", [text |-> "PDF conversion failed"]))
    ELSE IF doc.pages > 0 /\ doc.normalize = "error"
    THEN Raise(Exc("Exception", [text |-> "image conversion failed"]))
    ELSE Return([k \in 1..doc.pages |-> B64Image(doc.id, k - 1)])

\* The bracket-tracking loop of api._extract_json_substring from index i.
RECURSIVE ApiScanBrackets(_, _, _, _)
ApiScanBrackets(chars, start, i, stack) ==
    IF i > Len(chars) THEN None
    ELSE LET ch == chars[i] IN
         IF ch \in {"{", "["}
         THEN ApiScanBrackets(chars, start, i + 1, Append(stack, Pairs(ch)))
         ELSE IF ch \in {"}", "]"}
              THEN IF stack = <<>> THEN None
                   ELSE LET expected == stack[Len(stack)]
                            popped == SubSeq(stack, 1, Len(stack) - 1) IN
                        IF ch # expected THEN None
                        ELSE IF popped = <<>> THEN Str(SubSeq(chars, start, i))
                        ELSE ApiScanBrackets(chars, start, i + 1, popped)
         ELSE ApiScanBrackets(chars, start, i + 1, stack)

\* api._extract_json_substring
ApiExtractJsonSubstring(text) ==
    IF ~IsStr(text) THEN None
    ELSE LET start == FirstOpener(text.s, 1) IN
         IF start = 0 THEN None ELSE ApiScanBrackets(text.s, start, start, <<>>)

\* api.parse_model_json
ParseModelJson(content) ==
    IF IsDictOrList(content) THEN content
    ELSE IF ~IsStr(content) THEN content
    ELSE IF JsonLoads(content.s) # JSONDecodeError THEN JsonLoads(content.s)
    ELSE LET js == ApiExtractJsonSubstring(content) IN
         IF js # None /\ js.s # <<>> /\ JsonLoads(js.s) # JSONDecodeError
         THEN JsonLoads(js.s)
         ELSE content

\* One requests.post, raise_for_status, resp.json()["choices"][0]["message"]
\* ["content"] and parse_model_json of api.extract: the parsed content, or
\* the exception raised on the way.
ApiPost(outcome) ==
    IF outcome.kind # "ok" THEN Raise(Exc(outcome.kind, [text |-> outcome.kind]))
    ELSE LET c == GetContent(outcome.json) IN
         IF c.ok THEN Return(ParseModelJson(c.value)) ELSE c

\* JSONResponse(content, status_code)
JSONResponse(content, status_code) == [status_code |-> status_code, content |-> content]

\* The response of api.extract when the template step fails.
TemplateFailed(e) ==
    JSONResponse([error |-> [text |-> "Template processing failed", cause |-> e.msg]], 400)

\* The response of api.extract when the GET of the survey page fails.
QualtricsFetchFailed(fetch) ==
    JSONResponse([error |-> [text |-> "Failed to fetch Qualtrics link",
                             cause |-> fetch.kind]], 400)

\* The response of api.extract at its end.
ExtractResponse(json_schemas, results_, template_images_b64, qualtrics_link) ==
    JSONResponse([json_schemas |-> json_schemas, results |-> results_,
                  template_base64_images |-> template_images_b64,
                  received_qualtrics_link |-> qualtrics_link], 200)

\* The entry api.extract appends for a file.
ApiFileResult(filename, file_pages, file_images_b64) ==
    [filename |-> filename, pages |-> file_pages, base64_images |-> file_images_b64]

\* The entry appended to file_pages when processing a file raises.
ApiFileError(e) == [error |-> [text |-> "Error processing file", cause |-> e.msg]]

\* The number of pages api.pdf_to_base64_images yields.
ApiRasterized(doc) ==
    IF ApiPdfToBase64Images(doc).ok THEN Len(ApiPdfToBase64Images(doc).value) ELSE 0

RECURSIVE ApiWork(_)
ApiWork(files) ==
    IF files = <<>> THEN 0
    ELSE Max(1, ApiRasterized(Head(files).bytes)) + ApiWork(Tail(files))

\* The state api.extract starts in. Its locals are held in the variables of
\* the same role: json_schemas in schemas, template_images_b64 in
\* template_images, mapping_info in qualtrics_mapping, file_pages in result,
\* file_images_b64 in images_b64, the response in ret, and calls counts the
\* requests.post calls made. qualtrics_link is a form string.
InitApi ==
    /\ max_retries = 0
    /\ template_bytes \in DocsOf(0)
    /\ pdf_files \in FileLists
    /\ ApiRasterized(template_bytes) + ApiWork(pdf_files) <= MaxWork
    /\ qualtrics_url \in Urls \ {None}
    /\ pc = "api_template"
    /\ schemas = <<>>
    /\ template_images = <<>>
    /\ qualtrics_mapping = None
    /\ results = <<>>
    /\ result = <<>>
    /\ images_b64 = <<>>
    /\ idx = 0
    /\ page_idx = 0
    /\ file_idx = 0
    /\ call = NoCall
    /\ ret = None
    /\ calls = 0
    /\ html_fetch = None
    /\ eval = None

\* Step 1 of api.extract up to the page loop: read and rasterize the template.
ApiTemplate ==
    /\ pc = "api_template"
    /\ LET r == ApiPdfToBase64Images(template_bytes) IN
       IF r.ok
       THEN /\ template_images' = r.value
            /\ pc' = IF r.value = <<>> THEN "api_fetch" ELSE "api_schemas"
            /\ ret' = ret
       ELSE /\ ret' = TemplateFailed(r.exc)
            /\ pc' = "done"
            /\ template_images' = template_images
    /\ UNCHANGED <<inputs, eval, schemas, qualtrics_mapping, results, result, images_b64,
                   idx, page_idx, file_idx, call, calls, html_fetch>>

\* One pass of the template page loop of step 1: a single POST per page, its
\* parsed content appended to json_schemas; any exception ends the request
\* with status 400.
ApiSchemaPost(outcome) ==
    /\ pc = "api_schemas"
    /\ idx < Len(template_images)
    /\ calls' = calls + 1
    /\ LET r == ApiPost(outcome) IN
       IF r.ok
       THEN /\ schemas' = Append(schemas, r.value)
            /\ idx' = idx + 1
            /\ pc' = IF idx + 1 < Len(template_images) THEN "api_schemas" ELSE "api_fetch"
            /\ ret' = ret
       ELSE /\ ret' = TemplateFailed(r.exc)
            /\ pc' = "done"
            /\ UNCHANGED <<schemas, idx>>
    /\ UNCHANGED <<inputs, eval, template_images, qualtrics_mapping, results, result,
                   images_b64, page_idx, file_idx, call, html_fetch>>

\* Step 2 of api.extract, the GET of the survey page: made when
\* qualtrics_link is non-empty, and a failure ends the request with status 400.
ApiFetch(fetch) ==
    /\ pc = "api_fetch"
    /\ IF qualtrics_url.s = <<>>
       THEN /\ html_fetch' = html_fetch
            /\ pc' = "api_mapping"
            /\ ret' = ret
       ELSE /\ html_fetch' = fetch
            /\ IF fetch.kind = "ok"
               THEN pc' = "api_mapping" /\ ret' = ret
               ELSE pc' = "done" /\ ret' = QualtricsFetchFailed(fetch)
    /\ UNCHANGED <<inputs, eval, schemas, template_images, qualtrics_mapping, results,
                   result, images_b64, idx, page_idx, file_idx, call, calls>>

\* Step 2 of api.extract, the mapping POST: always made, and any exception
\* leaves mapping_info None.
ApiMappingPost(outcome) ==
    /\ pc = "api_mapping"
    /\ calls' = calls + 1
    /\ qualtrics_mapping' = IF ApiPost(outcome).ok THEN ApiPost(outcome).value ELSE None
    /\ pc' = "api_files"
    /\ UNCHANGED <<inputs, eval, schemas, template_images, results, result, images_b64,
                   idx, page_idx, file_idx, call, ret, html_fetch>>

\* Step 3 of api.extract at the head of the file loop: rasterize the next
\* file, or build the response once every file is done. A file that fails to
\* rasterize gets its error entry and is appended at once.
ApiFile ==
    /\ pc = "api_files"
    /\ IF file_idx < Len(pdf_files)
       THEN LET f == pdf_files[file_idx + 1]
                r == ApiPdfToBase64Images(f.bytes) IN
            /\ ret' = ret
            /\ page_idx' = 0
            /\ IF r.ok
               THEN /\ images_b64' = r.value
                    /\ result' = <<>>
                    /\ pc' = "api_pages"
                    /\ UNCHANGED <<results, file_idx>>
               ELSE /\ images_b64' = <<>>
                    /\ result' = <<ApiFileError(r.exc)>>
                    /\ results' = Append(results,
                                         ApiFileResult(f.filename, <<ApiFileError(r.exc)>>, <<>>))
                    /\ file_idx' = file_idx + 1
                    /\ pc' = "api_files"
       ELSE /\ ret' = ExtractResponse(schemas, results, template_images, qualtrics_url)
            /\ pc' = "done"
            /\ UNCHANGED <<results, result, images_b64, page_idx, file_idx>>
    /\ UNCHANGED <<inputs, eval, schemas, template_images, qualtrics_mapping, idx, call,
                   calls, html_fetch>>

\* One pass of the page loop of step 3 going on to the file's next page
\* after a failure.
ApiPagePost_Continue(outcome) ==
    /\ pc = "api_pages"
    /\ page_idx < Len(images_b64)
    /\ LET r == IF schemas = <<>>
                THEN Raise(Exc("IndexError", [text |-> "list index out of range"]))
                ELSE ApiPost(outcome) IN
       /\ calls' = IF schemas = <<>> THEN calls ELSE calls + 1
       /\ result' = IF r.ok
                    THEN Append(result, [page_index |-> page_idx, answers |-> r.value,
                                         base64_image |-> images_b64[page_idx + 1]])
                    ELSE Append(result, ApiFileError(r.exc))
       /\ page_idx' = page_idx + 1
       /\ UNCHANGED <<results, file_idx, pc>>
    /\ UNCHANGED <<inputs, eval, schemas, template_images, qualtrics_mapping, images_b64,
                   idx, call, ret, html_fetch>>

\* One pass of the page loop of step 3: the schema of the page, a single
\* POST, the page's entry appended to file_pages. Any exception, the
\* IndexError of an empty json_schemas included, appends an error entry and
\* ends the file.
ApiPagePost(outcome) ==
    /\ pc = "api_pages"
    /\ page_idx < Len(images_b64)
    /\ LET f == pdf_files[file_idx + 1]
           r == IF schemas = <<>>
                THEN Raise(Exc("IndexError", [text |-> "list index out of range"]))
                ELSE ApiPost(outcome) IN
       /\ calls' = IF schemas = <<>> THEN calls ELSE calls + 1
       /\ IF r.ok
          THEN /\ result' = Append(result, [page_index |-> page_idx, answers |-> r.value,
                                            base64_image |-> images_b64[page_idx + 1]])
               /\ page_idx' = page_idx + 1
               /\ UNCHANGED <<results, file_idx, pc>>
          ELSE /\ result' = Append(result, ApiFileError(r.exc))
               /\ results' = Append(results,
                                    ApiFileResult(f.filename,
                                                  Append(result, ApiFileError(r.exc)),
                                                  images_b64))
               /\ file_idx' = file_idx + 1
               /\ pc' = "api_files"
               /\ page_idx' = page_idx
    /\ UNCHANGED <<inputs, eval, schemas, template_images, qualtrics_mapping, images_b64,
                   idx, call, ret, html_fetch>>

\* The end of the page loop of step 3: the file's entry is appended.
ApiFileDone ==
    /\ pc = "api_pages"
    /\ page_idx >= Len(images_b64)
    /\ results' = Append(results,
                         ApiFileResult(pdf_files[file_idx + 1].filename, result, images_b64))
    /\ file_idx' = file_idx + 1
    /\ pc' = "api_files"
    /\ UNCHANGED <<inputs, eval, schemas, template_images, qualtrics_mapping, result,
                   images_b64, idx, page_idx, call, ret, calls, html_fetch>>

NextApi ==
    \/ ApiTemplate
    \/ \E outcome \in Outcomes : ApiSchemaPost(outcome)
    \/ \E fetch \in FetchOutcomes : ApiFetch(fetch)
    \/ \E outcome \in Outcomes : ApiMappingPost(outcome)
    \/ ApiFile
    \/ \E outcome \in Outcomes : ApiPagePost(outcome)
    \/ ApiFileDone

SpecApi == InitApi /\ [][NextApi]_vars

\* The variables of extract_batch.
pipeline == <<max_retries, template_bytes, pdf_files, qualtrics_url, pc, schemas,
              template_images, qualtrics_mapping, results, result, images_b64, idx,
              page_idx, file_idx, call, ret, calls, html_fetch>>

\* No batch is running: a function of utils/ is called on its own.
NoBatch ==
    /\ max_retries = MAX_RETRIES
    /\ template_bytes = Doc(0, "ok", 0, "ok")
    /\ pdf_files = <<>>
    /\ qualtrics_url = None
    /\ pc = "eval"
    /\ schemas = <<>>
    /\ template_images = <<>>
    /\ qualtrics_mapping = None
    /\ results = <<>>
    /\ result = None
    /\ images_b64 = <<>>
    /\ idx = 0
    /\ page_idx = 0
    /\ file_idx = 0
    /\ call = NoCall
    /\ ret = None
    /\ calls = 0
    /\ html_fetch = None

\* The sizes of page images and of target sizes.
Sizes == (1..MaxSide) \X (1..MaxSide)

\* resize_image about to be called on a page image.
InitResize ==
    /\ NoBatch
    /\ eval \in [fn : {"resize_image"}, img : Sizes, target_size : Sizes]

\* The call of resize_image.
ResizeImageCall ==
    /\ pc = "eval"
    /\ eval.fn = "resize_image"
    /\ "value" \notin DOMAIN eval
    /\ \E scaled \in Thumbnails(eval.img[1], eval.img[2],
                                eval.target_size[1], eval.target_size[2]) :
          eval' = [fn |-> eval.fn, img |-> eval.img, target_size |-> eval.target_size,
                   value |-> ResizeImage(scaled, eval.target_size)]
    /\ UNCHANGED pipeline

NextResize == ResizeImageCall

SpecResize == InitResize /\ [][NextResize]_vars

\* The characters of the enumerated model outputs: the brackets, the quote,
\* the backslash and a digit.
Alphabet == {"{", "}", "[", "]", "\"", "\\", "1"}

\* Longer outputs: {"a": (cut short), {"a": "} "}, ["\""], {]}[], 1 [1] 1
Examples ==
    {<<"{", "\"", "a", "\"", ":", " ">>,
     <<"{", "\"", "a", "\"", ":", " ", "\"", "}", " ", "\"", "}">>,
     <<"[", "\"", "\\", "\"", "\"", "]">>,
     <<"{", "]", "}", "[", "]">>,
     <<"1", " ", "[", "1", "]", " ", "1">>}

Texts == UNION {[1..n -> Alphabet] : n \in 0..MaxText} \cup Examples

\* Values that are not str: a dict, a list, None and an int.
Structured ==
    {[py |-> "dict", items |-> <<>>], [py |-> "list", elems |-> <<>>], None,
     [py |-> "int", n |-> 1]}

\* A function of JSONParser about to be called.
InitParser ==
    /\ NoBatch
    /\ \/ eval \in [fn : {"parse_model_response"},
                     x : {Str(t) : t \in Texts} \cup Structured]
       \/ eval \in [fn : {"extract_json_substring"}, x : {Str(t) : t \in Texts}]

\* The call parse_model_response(x).
ParseModelResponseCall ==
    /\ pc = "eval"
    /\ eval.fn = "parse_model_response"
    /\ "value" \notin DOMAIN eval
    /\ eval' = [fn |-> eval.fn, x |-> eval.x, value |-> ParseModelResponse(eval.x)]
    /\ UNCHANGED pipeline

\* The call of parse_model_response on what it returned.
ParseModelResponseAgain ==
    /\ pc = "eval"
    /\ eval.fn = "parse_model_response"
    /\ "value" \in DOMAIN eval
    /\ "again" \notin DOMAIN eval
    /\ eval' = [fn |-> eval.fn, x |-> eval.x, value |-> eval.value,
                again |-> ParseModelResponse(eval.value)]
    /\ UNCHANGED pipeline

\* The call extract_json_substring(x).
ExtractJsonSubstringCall ==
    /\ pc = "eval"
    /\ eval.fn = "extract_json_substring"
    /\ "value" \notin DOMAIN eval
    /\ eval' = [fn |-> eval.fn, x |-> eval.x, value |-> ExtractJsonSubstring(eval.x)]
    /\ UNCHANGED pipeline

NextParser ==
    \/ ParseModelResponseCall
    \/ ParseModelResponseAgain
    \/ ExtractJsonSubstringCall

SpecParser == InitParser /\ [][NextParser]_vars

\* The schemas extract_answers_from_form can be given: what
\* parse_model_response makes of a model's output.
SchemaValues ==
    {ParseModelResponse(Str(t)) : t \in UNION {[1..n -> Alphabet] : n \in 0..2} \cup Examples}
    \cup {None}

\* What _make_request gives extract_answers_from_form: a 2xx body, or
\* VLMAPIError.
MakeRequestResults ==
    {Return(r) : r \in Responses}
    \cup {Raise(Exc("VLMAPIError", TimeoutMsg(MAX_RETRIES)))}

\* extract_answers_from_form about to be called on a page image and a schema.
InitExtract ==
    /\ NoBatch
    /\ eval \in [fn : {"extract_answers_from_form"}, image_base64 : {B64Image(1, 0)},
                  schema : SchemaValues]

\* The call extract_answers_from_form(image_base64, schema): the payload it
\* sends, what _make_request gave it, and what it returns or raises.
ExtractAnswersFromFormCall(call_result) ==
    /\ pc = "eval"
    /\ eval.fn = "extract_answers_from_form"
    /\ "payload" \notin DOMAIN eval
    /\ eval' = [fn |-> eval.fn, image_base64 |-> eval.image_base64,
                schema |-> eval.schema,
                payload |-> ExtractPayload(eval.image_base64, eval.schema),
                response |-> call_result,
                value |-> ExtractAnswersFromForm(call_result)]
    /\ UNCHANGED pipeline

NextExtract == \E call_result \in MakeRequestResults : ExtractAnswersFromFormCall(call_result)

SpecExtract == InitExtract /\ [][NextExtract]_vars

\* ------------------------------------------------------ utils/validator.py
\* str.lower() on the characters of the enumerated names and content types.
LowerChar(ch) ==
    IF ch = "P" THEN "p" ELSE IF ch = "D" THEN "d" ELSE IF ch = "F" THEN "f" ELSE ch

Lower(chars) == [i \in 1..Len(chars) |-> LowerChar(chars[i])]

\* sub in chars
Contains(chars, sub) ==
    \E i \in 0..(Len(chars) - Len(sub)) : SubSeq(chars, i + 1, i + Len(sub)) = sub

\* chars.endswith(suffix)
EndsWith(chars, suffix) ==
    /\ Len(chars) >= Len(suffix)
    /\ SubSeq(chars, Len(chars) - Len(suffix) + 1, Len(chars)) = suffix

\* Validator.validate_pdf_file: None, or the exception raised. filename.lower()
\* on a filename that is None raises AttributeError.
ValidatePdfFile(file) ==
    IF Truthy(file.content_type) /\ ~Contains(Lower(file.content_type.s), <<"p", "d", "f">>)
    THEN Raise(Exc("ValidationError", [text |-> "must be a PDF", filename |-> file.filename]))
    ELSE IF ~IsStr(file.filename)
    THEN Raise(Exc("AttributeError", [text |-> "'NoneType' object has no attribute 'lower'"]))
    ELSE IF ~EndsWith(Lower(file.filename.s), <<".", "p", "d", "f">>)
    THEN Raise(Exc("ValidationError", [text |-> "must be a PDF", filename |-> file.filename]))
    ELSE IF ~Truthy(file.filename)
    THEN Raise(Exc("ValidationError", [text |-> "File must have a filename"]))
    ELSE Return(None)

\* Validator.validate_pdf_files
RECURSIVE ValidateEach(_)
ValidateEach(files) ==
    IF files = <<>> THEN Return(None)
    ELSE IF ~ValidatePdfFile(Head(files)).ok THEN ValidatePdfFile(Head(files))
    ELSE ValidateEach(Tail(files))

ValidatePdfFiles(files) ==
    IF files = <<>>
    THEN Raise(Exc("ValidationError", [text |-> "At least one file must be provided"]))
    ELSE ValidateEach(files)

\* The content types and the filenames of uploads: absent, empty, a PDF's
\* in either case, and another type's.
ContentTypes ==
    {None, Str(<<>>), Str(<<"a", "/", "p", "d", "f">>), Str(<<"a", "/", "P", "D", "F">>),
     Str(<<"a", "/", "t", "x", "t">>)}

UploadNames ==
    {None, Str(<<>>), Str(<<"a", ".", "p", "d", "f">>), Str(<<"a", ".", "P", "D", "F">>),
     Str(<<"a", ".", "t", "x", "t">>), Str(<<"p", "d", "f">>)}

UploadFiles == [content_type : ContentTypes, filename : UploadNames]

\* A function of Validator about to be called.
InitValidator ==
    /\ NoBatch
    /\ \/ eval \in [fn : {"validate_pdf_file"}, file : UploadFiles]
       \/ eval \in [fn : {"validate_pdf_files"},
                     files : UNION {[1..n -> UploadFiles] : n \in 0..2}]

\* The call validate_pdf_file(file).
ValidatePdfFileCall ==
    /\ pc = "eval"
    /\ eval.fn = "validate_pdf_file"
    /\ "value" \notin DOMAIN eval
    /\ eval' = [fn |-> eval.fn, file |-> eval.file, value |-> ValidatePdfFile(eval.file)]
    /\ UNCHANGED pipeline

\* The call validate_pdf_files(files).
ValidatePdfFilesCall ==
    /\ pc = "eval"
    /\ eval.fn = "validate_pdf_files"
    /\ "value" \notin DOMAIN eval
    /\ eval' = [fn |-> eval.fn, files |-> eval.files, value |-> ValidatePdfFiles(eval.files)]
    /\ UNCHANGED pipeline

NextValidator ==
    \/ ValidatePdfFileCall
    \/ ValidatePdfFilesCall

SpecValidator == InitValidator /\ [][NextValidator]_vars

\* ---------------------------------------------------------------- main.py
\* The routes of the FastAPI app of api.py: its one endpoint and the
\* documentation routes FastAPI adds.
ApiRoutes ==
    {<<"POST", "/extract">>, <<"GET", "/docs">>, <<"GET", "/redoc">>,
     <<"GET", "/openapi.json">>}

\* The status the running app answers a request with: 404 for a path it has
\* no route for, 405 for a path it has under another method only.
RouteStatus(method, path) ==
    IF <<method, path>> \in ApiRoutes THEN 200
    ELSE IF \E r \in ApiRoutes : r[2] = path THEN 405
    ELSE 404

\* check_api_health: response.ok of GET /health, False on any exception.
CheckApiHealth(server) ==
    IF server = "running" THEN RouteStatus("GET", "/health") < 400 ELSE FALSE

\* The UI script about to run: the API server is running and reachable or
\* it is not, and the user has uploaded a template and filled forms or not.
InitUi ==
    /\ NoBatch
    /\ eval \in [fn : {"ui"}, server : {"running", "down"},
                  template_file : {None} \cup {Str(<<"t">>)},
                  filled_files : UNION {[1..n -> {Filenames[i] : i \in 1..3}] : n \in 0..2},
                  qualtrics_link : Urls \ {None}]

\* The sidebar of the UI script: api_health = check_api_health().
CheckApiHealthCall ==
    /\ pc = "eval"
    /\ eval.fn = "ui"
    /\ "api_health" \notin DOMAIN eval
    /\ eval' = [fn |-> eval.fn, server |-> eval.server,
                template_file |-> eval.template_file, filled_files |-> eval.filled_files,
                qualtrics_link |-> eval.qualtrics_link,
                api_health |-> CheckApiHealth(eval.server)]
    /\ UNCHANGED pipeline

\* The Extract button, shown once a template and filled forms are uploaded:
\* the refusal when api_health is False, the POST /extract otherwise.
ExtractButton ==
    /\ pc = "eval"
    /\ eval.fn = "ui"
    /\ "api_health" \in DOMAIN eval
    /\ "pressed" \notin DOMAIN eval
    /\ eval.template_file # None
    /\ eval.filled_files # <<>>
    /\ eval' = [fn |-> eval.fn, server |-> eval.server,
                template_file |-> eval.template_file, filled_files |-> eval.filled_files,
                qualtrics_link |-> eval.qualtrics_link, api_health |-> eval.api_health,
                pressed |-> IF ~eval.api_health THEN "API server is not available"
                            ELSE "POST /extract"]
    /\ UNCHANGED pipeline

NextUi ==
    \/ CheckApiHealthCall
    \/ ExtractButton

SpecUi == InitUi /\ [][NextUi]_vars

\* ----------------------------------------------------------------- claims
\* A retryable condition of one HTTP attempt: timeout, transport error, 5xx.
Retryable(outcome) ==
    \/ outcome.kind \in {"Timeout", "RequestException"}
    \/ outcome.kind = "HTTPError" /\ outcome.status_code >= 500 /\ outcome.status_code < 600

Is4xx(outcome) ==
    outcome.kind = "HTTPError" /\ outcome.status_code >= 400 /\ outcome.status_code < 500

\* A logical call is in _make_request or has just left it.
InCall == pc \in {"http", "returned"}

\* C1: a logical call never makes more than max_retries + 1 attempts, and a
\* call all of whose attempts failed with a retryable condition ends after
\* exactly max_retries + 1 attempts by raising VLMAPIError.
C1_RetryExhaustion ==
    InCall =>
        /\ Len(call.attempts) <= max_retries + 1
        /\ (pc = "returned" /\ \A k \in 1..Len(call.attempts) : Retryable(call.attempts[k]))
              => /\ Len(call.attempts) = max_retries + 1
                 /\ ~call.result.ok
                 /\ call.result.exc.type = "VLMAPIError"

\* C1 witness: a call with the largest max_retries ended after attempts that
\* failed with different retryable conditions.
C1_Witness ==
    /\ pc = "returned"
    /\ max_retries = MaxRetries
    /\ Len(call.attempts) = max_retries + 1
    /\ \A k \in 1..Len(call.attempts) : Retryable(call.attempts[k])
    /\ \E j, k \in 1..Len(call.attempts) : call.attempts[j].kind # call.attempts[k].kind

\* C2: an HTTP 4xx is the last attempt of its call, at whichever attempt it
\* comes, and the call then raises VLMAPIError with the status code and the
\* body of that response.
C2_NoRetryOn4xx ==
    InCall =>
        \A k \in 1..Len(call.attempts) :
            Is4xx(call.attempts[k]) =>
                /\ k = Len(call.attempts)
                /\ pc = "returned"
                /\ ~call.result.ok
                /\ call.result.exc.type = "VLMAPIError"
                /\ call.result.exc.msg.status_code = call.attempts[k].status_code
                /\ call.result.exc.msg.body = call.attempts[k].text

\* C2 witness: a 4xx that came after an earlier retryable failure.
C2_Witness ==
    /\ pc = "returned"
    /\ Len(call.attempts) > 1
    /\ Is4xx(call.attempts[Len(call.attempts)])

\* C3: a retryable failure on attempt k <= max_retries leaves the call in
\* _make_request with retry_count = k, about to make attempt k + 1; a call
\* raises for a retryable condition only on attempt max_retries + 1; a call
\* whose last attempt succeeded returns that attempt's response.
C3_RaiseOnlyOnExhaustion ==
    (InCall /\ call.attempts # <<>>) =>
        LET k == Len(call.attempts)
            last == call.attempts[k] IN
        /\ (Retryable(last) /\ k <= max_retries)
              => (pc = "http" /\ call.retry_count = k)
        /\ (pc = "returned" /\ Retryable(last))
              => (k = max_retries + 1 /\ ~call.result.ok)
        /\ (pc = "returned" /\ last.kind = "ok")
              => call.result = Return(last.json)

\* C3 witness: a call that returned a response on a retry.
C3_Witness ==
    /\ pc = "returned"
    /\ Len(call.attempts) > 1
    /\ call.attempts[Len(call.attempts)].kind = "ok"
    /\ call.result.ok

\* Rasterizing these bytes fails: the PDF does not decode, or a page of it
\* does not normalize or encode.
RasterFails(doc) == doc.decode = "error" \/ (doc.pages > 0 /\ doc.normalize = "error")

\* The number of pages these bytes rasterize to.
PagesOf(doc) == IF doc.pages > MAX_PDF_PAGES THEN MAX_PDF_PAGES ELSE doc.pages

\* The template stage succeeded: the template rasterized and every page of
\* it got its schema.
TemplateStageSucceeded ==
    ~RasterFails(template_bytes) /\ Len(schemas) = PagesOf(template_bytes)

\* C4: for a batch whose template stage succeeds, extract_batch returns one
\* FileResult per input file, in input order with the file's name; a file
\* whose rasterization fails has status error, a message and no pages, and
\* every other file is processed as it would be without it.
C4_OneResultPerFile ==
    (pc = "done" /\ TemplateStageSucceeded) =>
        /\ ret.ok
        /\ Len(ret.value.results) = Len(pdf_files)
        /\ \A i \in 1..Len(pdf_files) :
              LET r == ret.value.results[i]
                  doc == pdf_files[i].bytes IN
              /\ r.filename = pdf_files[i].filename
              /\ RasterFails(doc) =>
                    (r.status = "error" /\ r.error # None /\ r.pages = <<>>)
              /\ (~RasterFails(doc) /\ Len(schemas) > 0) =>
                    (r.status = "success" /\ Len(r.pages) = PagesOf(doc))

\* C5: a file that rasterizes to N pages gets N page results with
\* page_index 0..N-1 in order and keeps status success, whichever page
\* extractions fail; a failed page has status error and a message.
C5_EveryPageRecorded ==
    \A i \in 1..Len(results) :
        LET r == results[i]
            doc == pdf_files[i].bytes IN
        ~RasterFails(doc) =>
            /\ r.status = "success"
            /\ Len(r.pages) = PagesOf(doc)
            /\ \A k \in 1..Len(r.pages) :
                  /\ r.pages[k].page_index = k - 1
                  /\ r.pages[k].status \in {"success", "error"}
                  /\ r.pages[k].status = "error" => "error" \in DOMAIN r.pages[k]

\* C6: when rasterizing the template fails, extract_batch goes from its
\* start straight to its return, with no VLM call, no fetch of the survey
\* page and no file processed, and returns status error with json_schemas
\* and results empty.
C6_TemplateRasterFailureAborts ==
    RasterFails(template_bytes) =>
        /\ pc \in {"start", "done"}
        /\ calls = 0
        /\ html_fetch = None
        /\ file_idx = 0
        /\ results = <<>>
        /\ pc = "done" =>
              /\ ret.ok
              /\ ret.value.status = "error"
              /\ ret.value.json_schemas = <<>>
              /\ ret.value.results = <<>>

\* C6 witness: a batch with uploads and a survey URL returned after a page
\* of its template failed to normalize.
C6_Witness ==
    /\ pc = "done"
    /\ template_bytes.decode = "ok"
    /\ RasterFails(template_bytes)
    /\ Len(pdf_files) > 0
    /\ qualtrics_url = Str(<<"u">>)

\* The error result of extract_batch.
IsErrorResult(r) == r.ok /\ r.value.status = "error"

\* C7: a schema call that the client gave up on is followed at once by the
\* return of the error result with json_schemas empty, with no further call
\* and no file processed; a batch that ended on a failed schema call made
\* one call per schema it had plus the failed one; and a success result
\* carries one schema per template page.
C7_SchemaAllOrNothing ==
    /\ [][(pc = "returned" /\ call.kind = "schema" /\ ~call.result.ok) =>
             /\ pc' = "done"
             /\ IsErrorResult(ret')
             /\ ret'.value.json_schemas = <<>>
             /\ ret'.value.results = <<>>
             /\ calls' = calls]_vars
    /\ [](pc = "done" =>
             /\ (IsErrorResult(ret) /\ calls > 0) =>
                   /\ calls = Len(schemas) + 1
                   /\ Len(schemas) < PagesOf(template_bytes)
                   /\ file_idx = 0
                   /\ results = <<>>
                   /\ html_fetch = None
             /\ (ret.ok /\ ret.value.status = "success") =>
                   Len(ret.value.json_schemas) = PagesOf(template_bytes))

\* C7 witness: the call for the first page of a two-page template timed out
\* on every attempt and the batch, which had uploads, ended with that single
\* call made.
C7_Witness ==
    /\ pc = "done"
    /\ IsErrorResult(ret)
    /\ ret.value.error.cause = TimeoutMsg(max_retries)
    /\ PagesOf(template_bytes) = 2
    /\ calls = 1
    /\ Len(pdf_files) > 0

\* The GET of the survey page was sent and failed.
FetchFailed == html_fetch \in {Str("HTTPError"), Str("RequestException")}

\* C8: after a failed fetch of the survey page no mapping call is made, the
\* mapping stays None, and extract_batch returns status success with
\* qualtrics_mapping None and a result for every uploaded file, each raster
\* page of which was extracted.
C8_FetchFailureKeepsBatch ==
    FetchFailed =>
        /\ qualtrics_mapping = None
        /\ InCall => call.kind = "extract"
        /\ pc = "done" =>
              /\ ret.ok
              /\ ret.value.status = "success"
              /\ ret.value.qualtrics_mapping = None
              /\ Len(ret.value.results) = Len(pdf_files)
              /\ \A i \in 1..Len(pdf_files) :
                    /\ ret.value.results[i].filename = pdf_files[i].filename
                    /\ (~RasterFails(pdf_files[i].bytes) /\ Len(schemas) > 0) =>
                          Len(ret.value.results[i].pages) = PagesOf(pdf_files[i].bytes)

\* C8 witness: a batch returned after a failed fetch, with pages extracted.
C8_Witness ==
    /\ pc = "done"
    /\ html_fetch = Str("HTTPError")
    /\ ret.ok
    /\ \E i \in 1..Len(ret.value.results) : ret.value.results[i].pages # <<>>

\* C9: VLMService.map_qualtrics_fields makes no request for blank HTML, and
\* whatever its VLM call does it returns; it returns None when the client
\* raised or the response lacks the content.
C9_MappingNeverRaises ==
    (InCall /\ call.kind = "mapping") =>
        /\ Strip(call.payload.html) # <<>>
        /\ pc = "returned" =>
              LET r == VlmMapQualtricsFields(call.result) IN
              /\ r.ok
              /\ (~call.result.ok \/ call.result.value \in MalformedResponses)
                    => r.value = None

\* C10: the schema sent with page i of an upload, when S >= 1 schemas
\* exist, is schemas[i] for i < S and schemas[0] for i >= S.
C10_SchemaFallback ==
    (InCall /\ call.kind = "extract" /\ Len(schemas) >= 1) =>
        call.payload.schema = IF page_idx < Len(schemas)
                              THEN schemas[page_idx + 1]
                              ELSE schemas[1]

\* C10 witness: a page beyond the page count of a two-page template, whose
\* two schemas differ, is being extracted.
C10_Witness ==
    /\ InCall
    /\ call.kind = "extract"
    /\ Len(schemas) = 2
    /\ schemas[1] # schemas[2]
    /\ page_idx >= Len(schemas)

\* C11 as stated: the schema sent with page i of an upload, when S >= 1
\* schemas exist, is schemas[min(i, S - 1)].
C11_MinIndexSchema ==
    (InCall /\ call.kind = "extract" /\ Len(schemas) >= 1) =>
        call.payload.schema =
            schemas[(IF page_idx < Len(schemas) - 1 THEN page_idx ELSE Len(schemas) - 1) + 1]

\* The 0-based index of the schema for page i when S schemas exist.
FallbackIndex(i, S) == IF i < S THEN i ELSE 0

\* C11 amended: every extraction call carries the image of the page it is
\* for and the schema at index i if i < S, at index 0 otherwise.
C11_FirstSchemaFallback ==
    (InCall /\ call.kind = "extract" /\ Len(schemas) >= 1) =>
        /\ call.payload.image = B64Image(pdf_files[file_idx + 1].bytes.id, page_idx)
        /\ call.payload.schema = schemas[FallbackIndex(page_idx, Len(schemas)) + 1]

\* C11 witness: the call for the third page of an upload returned, with two
\* different schemas at hand.
C11_Witness ==
    /\ pc = "returned"
    /\ call.kind = "extract"
    /\ Len(schemas) = 2
    /\ schemas[1] # schemas[2]
    /\ page_idx = 2

\* Exactly one of answers and error is populated in a page dict, by status.
AnswersXorError(page) ==
    /\ page.status \in {"success", "error"}
    /\ page.status = "success" => (page.answers # None /\ "error" \notin DOMAIN page)
    /\ page.status = "error" =>
          ("error" \in DOMAIN page /\ page.error # None /\ page.answers = None)

\* C12: every page dict extract_from_pdf has appended, in the file being
\* processed and in the files done, has answers and no error when its status
\* is success, and an error and no answers when its status is error.
C12_AnswersXorError ==
    /\ result # None => \A k \in 1..Len(result.pages) : AnswersXorError(result.pages[k])
    /\ \A i \in 1..Len(results) :
          \A k \in 1..Len(results[i].pages) : AnswersXorError(results[i].pages[k])

\* C13: a file result has status error only if rasterizing the file failed,
\* and then it has no pages and an error; with status success its error is
\* None.
C13_FileErrorOnlyOnRasterFailure ==
    \A i \in 1..Len(results) :
        LET r == results[i] IN
        /\ r.status \in {"success", "error"}
        /\ r.status = "error" =>
              (RasterFails(pdf_files[i].bytes) /\ r.pages = <<>> /\ r.error # None)
        /\ r.status = "success" => r.error = None

\* extract_batch is in its loop over the files.
InFileStage ==
    pc \in {"files", "page_loop"} \/ (InCall /\ call.kind = "extract")

\* C14: once extract_batch is in its loop over the files it leaves only by
\* returning status success, whatever fails in the files and pages; a
\* returned dict has status error only if the template stage failed; and in
\* a success result every file that failed to rasterize has status error.
C14_BatchStatus ==
    /\ [][(InFileStage /\ pc' = "done") =>
             (ret'.ok /\ ret'.value.status = "success")]_vars
    /\ []((pc = "done" /\ ret.ok) =>
             /\ ret.value.status \in {"success", "error"}
             /\ ret.value.status = "error" => ~TemplateStageSucceeded
             /\ ret.value.status = "success" =>
                   \A i \in 1..Len(ret.value.results) :
                       RasterFails(pdf_files[i].bytes) =>
                           ret.value.results[i].status = "error")

\* C14 witness: a success result of a batch with schemas in which every one
\* of several files has status error.
C14_Witness ==
    /\ pc = "done"
    /\ ret.ok
    /\ ret.value.status = "success"
    /\ Len(schemas) > 0
    /\ Len(ret.value.results) > 1
    /\ \A i \in 1..Len(ret.value.results) : ret.value.results[i].status = "error"

\* The images of pages 0 .. min(N, max_pages) - 1 of a document, in order.
FirstPages(doc) == [k \in 1..PagesOf(doc) |-> B64Image(doc.id, k - 1)]

\* C15: the images the template loop and the page loop iterate over, and
\* those a file result carries, are the images of the first
\* min(N, MAX_PDF_PAGES) pages of the document in page order; a document
\* over the cap is cut, not failed.
C15_RasterPageCount ==
    /\ (pc = "schema_loop" \/ (InCall /\ call.kind = "schema"))
          => images_b64 = FirstPages(template_bytes)
    /\ (pc = "page_loop" \/ (InCall /\ call.kind = "extract"))
          => /\ images_b64 = FirstPages(pdf_files[file_idx + 1].bytes)
             /\ result.base64_images = images_b64
    /\ \A i \in 1..Len(results) :
          ~RasterFails(pdf_files[i].bytes)
              => results[i].base64_images = FirstPages(pdf_files[i].bytes)

\* C15 witness: the result of an upload with more pages than the cap.
C15_Witness ==
    \E i \in 1..Len(results) :
        /\ pdf_files[i].bytes.pages > MAX_PDF_PAGES
        /\ Len(results[i].base64_images) = MAX_PDF_PAGES

\* resize_image has returned.
Resized == pc = "eval" /\ eval.fn = "resize_image" /\ "value" \in DOMAIN eval

\* C16: the canvas resize_image returns has exactly the target size; the
\* page pasted on it is no larger than the source page and no larger than
\* the canvas; it is pasted centered (the margins of an axis differ by at
\* most one pixel), at offsets >= 0 with offset + pasted size <= target size.
C16_Canvas ==
    Resized =>
        LET v == eval.value IN
        /\ v.size = eval.target_size
        /\ \A a \in 1..2 :
              /\ v.pasted[a] >= 1
              /\ v.pasted[a] <= eval.img[a]
              /\ v.pasted[a] <= eval.target_size[a]
              /\ v.paste[a] >= 0
              /\ v.paste[a] + v.pasted[a] <= eval.target_size[a]
              /\ (eval.target_size[a] - v.pasted[a] - v.paste[a]) - v.paste[a] \in {0, 1}

\* C16 witness: a page wider than the target and less high was scaled down
\* and pasted with a margin above it.
C16_Witness ==
    /\ Resized
    /\ eval.img[1] > eval.target_size[1]
    /\ eval.img[2] < eval.target_size[2]
    /\ eval.value.pasted[1] < eval.img[1]
    /\ eval.value.paste[2] > 0

\* C17: parse_model_response applied to what it returned returns the same.
C17_ParserIdempotent ==
    (pc = "eval" /\ eval.fn = "parse_model_response" /\ "again" \in DOMAIN eval)
        => eval.again = eval.value

\* parse_model_response has returned or raised.
Parsed1 == pc = "eval" /\ eval.fn = "parse_model_response" /\ "value" \in DOMAIN eval

\* C18: parse_model_response never ends in an exception; a dict or list is
\* returned as it is; a str that json.loads rejects and whose balanced
\* substring is missing or rejected too is returned as it is.
C18_ParserNeverRaises ==
    Parsed1 =>
        /\ eval.value # JSONDecodeError
        /\ IsDictOrList(eval.x) => eval.value = eval.x
        /\ (/\ IsStr(eval.x)
            /\ JsonLoads(eval.x.s) = JSONDecodeError
            /\ LET sub == ExtractJsonSubstring(eval.x) IN
               sub = None \/ JsonLoads(sub.s) = JSONDecodeError)
              => eval.value = eval.x

\* C18 witness: the unmatched text {"a": followed by a space came back
\* unchanged.
C18_Witness ==
    /\ Parsed1
    /\ eval.x = Str(<<"{", "\"", "a", "\"", ":", " ">>)
    /\ eval.value = eval.x

\* The number of backslashes right before position q, after position o.
BackslashRun(chars, o, q) ==
    Cardinality({k \in 1..(q - o - 1) : \A j \in (q - k)..(q - 1) : chars[j] = "\\"})

\* The quote that ends the string literal opened at o: the first quote after
\* o with an even number of backslashes right before it; 0 if there is none.
ClosingQuote(chars, o) ==
    LET ends == {q \in (o + 1)..Len(chars) :
                    chars[q] = "\"" /\ BackslashRun(chars, o, q) % 2 = 0} IN
    IF ends = {} THEN 0 ELSE CHOOSE q \in ends : \A r \in ends : q <= r

\* The positions from i on, i outside a literal, of the brackets that are
\* outside string literals, in order.
RECURSIVE StructuralFrom(_, _)
StructuralFrom(chars, i) ==
    IF i > Len(chars) THEN <<>>
    ELSE IF chars[i] = "\""
    THEN LET q == ClosingQuote(chars, i) IN
         IF q = 0 THEN <<>> ELSE StructuralFrom(chars, q + 1)
    ELSE IF chars[i] \in {"{", "}", "[", "]"}
    THEN <<i>> \o StructuralFrom(chars, i + 1)
    ELSE StructuralFrom(chars, i + 1)

\* A bracket string with its first adjacent pair {} or [] removed, again
\* and again until there is none.
RECURSIVE Reduce(_)
Reduce(b) ==
    LET pairs == {k \in 1..(Len(b) - 1) :
                     <<b[k], b[k + 1]>> \in {<<"{", "}">>, <<"[", "]">>}} IN
    IF pairs = {} THEN b
    ELSE LET k == CHOOSE m \in pairs : \A n \in pairs : m <= n IN
         Reduce(SubSeq(b, 1, k - 1) \o SubSeq(b, k + 2, Len(b)))

\* The substring from the first opener to the first structural bracket at
\* which the structural brackets so far are balanced; None if there is no
\* opener or no such bracket.
BalancedSubstring(chars) ==
    LET openers == {i \in 1..Len(chars) : chars[i] \in {"{", "["}} IN
    IF openers = {} THEN None
    ELSE LET start == CHOOSE i \in openers : \A j \in openers : i <= j
             at == StructuralFrom(chars, start)
             ends == {k \in 1..Len(at) : Reduce([j \in 1..k |-> chars[at[j]]]) = <<>>} IN
         IF ends = {} THEN None
         ELSE Str(SubSeq(chars, start, at[CHOOSE k \in ends : \A m \in ends : k <= m]))

\* C19: extract_json_substring returns the substring from the first opener
\* to the first bracket outside string literals at which the brackets
\* outside string literals are balanced, and None when there is none (no
\* opener, a closer that does not match, or the text ends first).
C19_BalancedSubstring ==
    (pc = "eval" /\ eval.fn = "extract_json_substring" /\ "value" \in DOMAIN eval)
        => eval.value = BalancedSubstring(eval.x.s)

\* C19 witness: {"a": "} "} came back whole, the brace in its literal
\* skipped.
C19_Witness ==
    /\ pc = "eval"
    /\ eval.fn = "extract_json_substring"
    /\ "value" \in DOMAIN eval
    /\ eval.x = Str(<<"{", "\"", "a", "\"", ":", " ", "\"", "}", " ", "\"", "}">>)
    /\ eval.value = eval.x


\* Whether step 1 of api.extract failed: the template did not rasterize, or
\* a template page has no schema.
ApiTemplateStageFailed ==
    \/ ~ApiPdfToBase64Images(template_bytes).ok
    \/ Len(schemas) < Len(template_images)

\* C20: the /extract endpoint answers with a status outside 2xx only when the
\* template stage failed; a failed qualtrics stage and failed files or pages
\* are reported inside a 2xx response.
C20_Non2xxOnlyOnTemplateFailure ==
    (pc = "done" /\ ret # None /\ ret.status_code \notin 200..299)
        => ApiTemplateStageFailed

\* The field names of a BatchResult.
BatchResultFields ==
    {"json_schemas", "results", "template_base64_images", "qualtrics_mapping",
     "received_qualtrics_link", "status"}

\* C21: every 2xx response body of the /extract endpoint has the six
\* BatchResult fields json_schemas, results, template_base64_images,
\* qualtrics_mapping, received_qualtrics_link and status.
C21_ResponseHasBatchResultFields ==
    (pc = "done" /\ ret # None /\ ret.status_code \in 200..299)
        => BatchResultFields \subseteq DOMAIN ret.content

\* C22: every BatchResult extract_batch returns, with status success or
\* error, carries status, the schemas, the results, qualtrics_mapping and
\* the echoed link, which is the supplied URL or empty without one.
C22_BatchResultShape ==
    (pc = "done" /\ ret # None /\ ret.ok)
        => /\ BatchResultFields \subseteq DOMAIN ret.value
           /\ ret.value.received_qualtrics_link =
                  (IF qualtrics_url = None THEN Str(<<>>) ELSE qualtrics_url)

\* extract_batch with every step it can take eventually taken: every HTTP
\* attempt and every rasterization ends.
SpecFair == Init /\ [][Next]_vars /\ WF_vars(Next)

\* C23: when every HTTP attempt and every rasterization ends, extract_batch
\* ends, and it ends either by returning a success result holding a result
\* for every file, or by returning the error result of a failed template
\* stage; it never ends with an exception.
C23_TwoOutcomes ==
    /\ <>(pc = "done")
    /\ [](pc = "done" =>
            /\ ret.ok
            /\ \/ /\ ret.value.status = "success"
                  /\ TemplateStageSucceeded
                  /\ Len(ret.value.results) = Len(pdf_files)
               \/ /\ ret.value.status = "error"
                  /\ ~TemplateStageSucceeded)

\* C24: for the same template, files and outcomes of the schema and
\* extraction calls, extract_batch returns the same json_schemas and the same
\* file results with a survey URL as without one, whatever the fetch and the
\* mapping call do.
C24_MappingNotConsumed ==
    (pc = "done" /\ eval.first # None) =>
        /\ ~eval.beyond
        /\ eval.pos = Len(eval.log) + 1
        /\ ret.ok = eval.first.ok
        /\ ret.ok => /\ ret.value.json_schemas = eval.first.value.json_schemas
                     /\ ret.value.results = eval.first.value.results

\* C25: the qualtrics_mapping of a returned result is the mapping the
\* qualtrics stage produced, and it is non-null only through a mapping call
\* that succeeded, made for a non-empty URL whose fetch succeeded with
\* non-blank HTML; a mapping call the client gave up on leaves it null, and
\* without a fetchable URL or with a failed fetch it is null and no mapping
\* call is made.
C25_MappingPresence ==
    /\ []((pc = "done" /\ ret.ok) => ret.value.qualtrics_mapping = qualtrics_mapping)
    /\ []((~Fetches(qualtrics_url) \/ html_fetch # Str("ok"))
             => /\ qualtrics_mapping = None
                /\ ~(InCall /\ call.kind = "mapping"))
    /\ [][(qualtrics_mapping = None /\ qualtrics_mapping' # None)
             => /\ pc = "returned" /\ call.kind = "mapping"
                /\ call.result.ok
                /\ GetContent(call.result.value).ok
                /\ Strip(call.payload.html) # <<>>]_vars
    /\ [][(pc = "returned" /\ call.kind = "mapping" /\ ~call.result.ok)
             => qualtrics_mapping' = None /\ pc' = "files"]_vars

C25_Witness ==
    /\ pc = "done"
    /\ ret.ok
    /\ ret.value.qualtrics_mapping # None
    /\ Fetches(qualtrics_url)
    /\ html_fetch = Str("ok")

\* C26: within a logical call the wait after the n-th failed attempt is
\* retry_delay * n, so the waits strictly increase; a wait follows every
\* failed retryable attempt that is not the last one allowed, and nothing
\* else: no wait follows the final attempt, a 4xx or a success, and at most
\* max_retries waits happen.
C26_LinearBackoff ==
    InCall =>
        /\ \A n \in 1..Len(call.slept) :
              /\ call.slept[n] = RETRY_DELAY * n
              /\ Retryable(call.attempts[n])
        /\ \A n \in 1..(Len(call.slept) - 1) : call.slept[n] < call.slept[n + 1]
        /\ Len(call.slept) <= max_retries
        /\ Len(call.slept) = call.retry_count
        /\ Len(call.slept) = IF pc = "returned" THEN Len(call.attempts) - 1
                             ELSE Len(call.attempts)

C26_Witness ==
    /\ pc = "returned"
    /\ ~call.result.ok
    /\ call.slept = <<RETRY_DELAY, 2 * RETRY_DELAY>>
    /\ Len(call.attempts) = 3

\* The bytes decode, to zero pages.
ZeroPages(doc) == doc.decode = "ok" /\ doc.pages = 0

\* C27: rasterizing a document that decodes to zero pages raises
\* PDFProcessingError, so a batch with a zero-page template ends with the
\* error result as soon as it has rasterized it, and a zero-page upload gets
\* a file result with status error.
C27_ZeroPagesRejected ==
    /\ (ZeroPages(template_bytes) /\ pc # "start")
          => /\ ~PdfToBase64Images(template_bytes).ok
             /\ PdfToBase64Images(template_bytes).exc.type = "PDFProcessingError"
             /\ pc = "done" /\ IsErrorResult(ret)
    /\ \A i \in 1..Len(results) :
          ZeroPages(pdf_files[i].bytes)
              => /\ ~PdfToBase64Images(pdf_files[i].bytes).ok
                 /\ results[i].status = "error"

\* C28: the request of extract_answers_from_form carries a response_format
\* of type json_schema holding the schema exactly when the schema is a dict;
\* for a list, a string or any other schema it carries none; and whichever
\* it is, the content of a well-formed response is returned as
\* parse_model_response gives it.
C28_StructuredOutputForObjects ==
    (pc = "eval" /\ eval # None /\ "payload" \in DOMAIN eval) =>
        /\ ("response_format" \in DOMAIN eval.payload) <=> (eval.schema.py = "dict")
        /\ eval.schema.py = "dict"
              => eval.payload.response_format =
                     [type |-> "json_schema", schema |-> eval.schema]
        /\ eval.schema.py \in {"list", "str"}
              => DOMAIN eval.payload = {"image", "schema"}
        /\ \A c \in Contents :
              eval.response = Return(ChatResponse(c))
                  => eval.value = Return(ParseModelResponse(c))

C28_Witness ==
    /\ pc = "eval" /\ eval # None /\ "payload" \in DOMAIN eval
    /\ eval.schema.py = "list"
    /\ "response_format" \notin DOMAIN eval.payload
    /\ eval.response = Return(ChatResponse(Str(<<"{", "}">>)))
    /\ eval.value.ok /\ eval.value.value.py = "dict"

\* The file results so far are those of the first files, in input order.
ResultsInInputOrder ==
    /\ Len(results) = file_idx
    /\ file_idx <= Len(pdf_files)
    /\ \A i \in 1..Len(results) : results[i].filename = pdf_files[i].filename

\* The pages recorded so far for the running file are its first pages, in
\* increasing page index.
PagesInIndexOrder ==
    /\ Len(result.pages) = page_idx
    /\ \A k \in 1..Len(result.pages) : result.pages[k].page_index = k - 1

\* C29: while a schema call runs, the qualtrics stage has not begun and no
\* file has been touched; the fetch and the mapping call happen only once
\* every template page has its schema, and before any file is touched; an
\* extraction call happens only after the qualtrics stage, for the next page
\* of the next file: the earlier files all have their results, in input
\* order, and the earlier pages of the file are recorded, in index order.
C29_StageOrder ==
    /\ []((InCall /\ call.kind = "schema")
             => /\ html_fetch = None /\ qualtrics_mapping = None
                /\ Len(schemas) = idx /\ idx < PagesOf(template_bytes)
                /\ call.payload.image = B64Image(0, idx)
                /\ results = <<>> /\ result = None /\ file_idx = 0)
    /\ []((pc = "qualtrics" \/ (InCall /\ call.kind = "mapping"))
             => /\ Len(schemas) = PagesOf(template_bytes)
                /\ results = <<>> /\ result = None /\ file_idx = 0)
    /\ []((InCall /\ call.kind = "extract")
             => /\ Len(schemas) = PagesOf(template_bytes)
                /\ ResultsInInputOrder
                /\ result.filename = pdf_files[file_idx + 1].filename
                /\ PagesInIndexOrder
                /\ call.payload.image = B64Image(file_idx + 1, page_idx))
    /\ [][(pc \in {"files", "page_loop"} \/ (InCall /\ call.kind = "extract"))
             => (UNCHANGED <<schemas, html_fetch, qualtrics_mapping>>)]_vars
    /\ [][(InCall /\ call.kind = "mapping") => (UNCHANGED <<schemas, html_fetch>>)]_vars

C29_Witness ==
    /\ InCall /\ call.kind = "extract"
    /\ file_idx = 1
    /\ Len(results[1].pages) = 1
    /\ qualtrics_mapping # None
    /\ Len(schemas) = 1

\* C30: a logical call starts only while no call is in progress; while a
\* call is in progress the only thing that happens is the next attempt of
\* that same call; an attempt after the first starts only once each earlier
\* attempt has ended and been followed by its wait; and the result of a call
\* is consumed before any other call starts.
C30_OneRequestAtATime ==
    /\ [](InCall <=> call # NoCall)
    /\ [](pc = "http" => /\ "result" \notin DOMAIN call
                         /\ Len(call.slept) = Len(call.attempts)
                         /\ call.retry_count = Len(call.attempts))
    /\ [](pc = "returned" => "result" \in DOMAIN call)
    /\ [][calls' # calls
             => /\ calls' = calls + 1
                /\ ~InCall
                /\ pc' = "http"
                /\ call'.attempts = <<>> /\ call'.retry_count = 0]_vars
    /\ [][pc = "http"
             => /\ pc' \in {"http", "returned"}
                /\ calls' = calls
                /\ call'.kind = call.kind /\ call'.payload = call.payload
                /\ Len(call'.attempts) = Len(call.attempts) + 1
                /\ SubSeq(call'.attempts, 1, Len(call.attempts)) = call.attempts]_vars
    /\ [][pc = "returned" => (calls' = calls /\ pc' # "http" /\ call' = NoCall)]_vars

C30_Witness ==
    /\ pc = "http"
    /\ call.kind = "extract"
    /\ Len(call.attempts) = 1
    /\ call.slept = <<RETRY_DELAY>>
    /\ calls >= 2

\* The content of a well-formed chat response.
ContentOf(response) == response.choices.elems[1].message.content

\* C31: the schema list grows only by the parsed content of the response to
\* the schema call for the template page whose index is the list's length;
\* once the qualtrics stage is reached it never changes; and the success
\* result carries that list, one schema per rasterized template page.
C31_SchemasInPageOrder ==
    /\ [][schemas' # schemas
             => /\ pc = "returned" /\ call.kind = "schema"
                /\ call.payload.image = B64Image(0, Len(schemas))
                /\ call.result.ok
                /\ schemas' = Append(schemas,
                                     ParseModelResponse(ContentOf(call.result.value)))]_vars
    /\ [][(pc \in {"qualtrics", "files", "page_loop"}
              \/ (InCall /\ call.kind \in {"mapping", "extract"}))
             => schemas' = schemas]_vars
    /\ []((pc = "done" /\ ret.ok /\ ret.value.status = "success")
             => /\ ret.value.json_schemas = schemas
                /\ Len(ret.value.json_schemas) = PagesOf(template_bytes))

C31_Witness ==
    /\ pc = "done" /\ ret.ok /\ ret.value.status = "success"
    /\ Len(ret.value.json_schemas) = 2
    /\ ret.value.json_schemas[1] # ret.value.json_schemas[2]
    /\ ret.value.qualtrics_mapping # None

\* C32: when the attempt that ends a call is a 2xx response without
\* choices[0].message.content, generate_schema_from_template and
\* extract_answers_from_form raise VLMAPIError and map_qualtrics_fields
\* returns None, and the attempt is the call's last.
C32_MalformedResponse ==
    (pc = "returned" /\ call.result.ok /\ call.result.value \in MalformedResponses) =>
        /\ call.attempts[Len(call.attempts)] = [kind |-> "ok", json |-> call.result.value]
        /\ call.kind = "schema"
              => /\ ~GenerateSchemaFromTemplate(call.result).ok
                 /\ GenerateSchemaFromTemplate(call.result).exc.type = "VLMAPIError"
        /\ call.kind = "extract"
              => /\ ~ExtractAnswersFromForm(call.result).ok
                 /\ ExtractAnswersFromForm(call.result).exc.type = "VLMAPIError"
        /\ call.kind = "mapping"
              => VlmMapQualtricsFields(call.result) = Return(None)

\* A call ended with a well-formed response whose content is a string that
\* is not JSON and holds no bracketed substring.
UnparseableContent ==
    /\ pc = "returned"
    /\ call.result.ok
    /\ call.result.value \notin MalformedResponses
    /\ IsStr(ContentOf(call.result.value))
    /\ JsonLoads(ContentOf(call.result.value).s) = JSONDecodeError
    /\ FirstOpener(ContentOf(call.result.value).s, 1) = 0

\* C33: content that cannot be parsed as JSON is kept as it is: the page of
\* an extraction call is recorded with status success and the raw string as
\* its answers, and the schema of a schema call is the raw string, with
\* schema generation going on to the next template page.
C33_RawContentKept ==
    /\ [][(UnparseableContent /\ call.kind = "extract")
             => /\ result'.pages = Append(result.pages,
                       [page_index |-> page_idx, answers |-> ContentOf(call.result.value),
                        base64_image |-> images_b64[page_idx + 1], status |-> "success"])
                /\ pc' = "page_loop"]_vars
    /\ [][(UnparseableContent /\ call.kind = "schema")
             => /\ schemas' = Append(schemas, ContentOf(call.result.value))
                /\ pc' = "schema_loop"]_vars

C33_Witness ==
    /\ pc = "done" /\ ret.ok /\ ret.value.status = "success"
    /\ Len(ret.value.json_schemas) = 1 /\ ret.value.json_schemas[1] = Str(<<"a">>)
    /\ Len(ret.value.results) = 1
    /\ Len(ret.value.results[1].pages) = 1
    /\ ret.value.results[1].pages[1].answers = Str(<<"a">>)
    /\ ret.value.results[1].pages[1].status = "success"

\* An upload that is malformed caller input: a content type that is given
\* and is not a PDF's, no filename, or a filename that does not end in .pdf.
Malformed(file) ==
    \/ /\ file.content_type \notin {None, Str(<<>>)}
       /\ ~Contains(Lower(file.content_type.s), <<"p", "d", "f">>)
    \/ file.filename \in {None, Str(<<>>)}
    \/ ~EndsWith(Lower(file.filename.s), <<".", "p", "d", "f">>)

\* C34: validate_pdf_file raises ValidationError, and no other exception, for
\* a wrong content type, a filename not ending in .pdf and a missing
\* filename, and returns for any other upload; validate_pdf_files raises
\* ValidationError for an empty list and for a list holding such an upload.
C34_ValidationErrorOnly ==
    (pc = "eval" /\ eval # None /\ "value" \in DOMAIN eval) =>
        /\ eval.fn = "validate_pdf_file"
              => /\ Malformed(eval.file) <=> ~eval.value.ok
                 /\ ~eval.value.ok => eval.value.exc.type = "ValidationError"
        /\ eval.fn = "validate_pdf_files"
              => /\ ~eval.value.ok <=>
                       (eval.files = <<>>
                        \/ \E i \in 1..Len(eval.files) : Malformed(eval.files[i]))
                 /\ ~eval.value.ok => eval.value.exc.type = "ValidationError"

\* C35: every schema is generated from the image of the template page whose
\* index is its place in the list, and in a success result
\* template_base64_images is as long as json_schemas with entry i the image
\* of that same page i of the template.
C35_TemplateImagesMatchSchemas ==
    /\ [][schemas' # schemas => call.payload.image = B64Image(0, Len(schemas))]_vars
    /\ []((pc = "done" /\ ret.ok /\ ret.value.status = "success")
             => /\ Len(ret.value.template_base64_images) = Len(ret.value.json_schemas)
                /\ \A i \in 1..Len(ret.value.template_base64_images) :
                      ret.value.template_base64_images[i] = B64Image(0, i - 1))

C35_Witness ==
    /\ pc = "done" /\ ret.ok /\ ret.value.status = "success"
    /\ Len(ret.value.json_schemas) = 2
    /\ ret.value.template_base64_images = <<B64Image(0, 0), B64Image(0, 1)>>

\* C36: in every file result with status success, pages is as long as
\* base64_images, and page i has page_index i and the image base64_images[i],
\* whether its extraction succeeded or failed.
C36_PagesMatchImages ==
    \A i \in 1..Len(results) :
        results[i].status = "success" =>
            /\ Len(results[i].pages) = Len(results[i].base64_images)
            /\ \A k \in 1..Len(results[i].pages) :
                  /\ results[i].pages[k].page_index = k - 1
                  /\ results[i].pages[k].base64_image = results[i].base64_images[k]

C36_Witness ==
    /\ Len(results) = 1
    /\ results[1].status = "success"
    /\ Len(results[1].pages) = 2
    /\ results[1].pages[1].status = "error"
    /\ results[1].pages[2].status = "success"
    /\ results[1].pages[2].base64_image = B64Image(1, 1)

\* The number of pages a document rasterizes to, 0 when rasterizing fails.
RasterPages(doc) == IF RasterFails(doc) THEN 0 ELSE PagesOf(doc)

RECURSIVE SumRasterPages(_)
SumRasterPages(files) ==
    IF files = <<>> THEN 0
    ELSE RasterPages(Head(files).bytes) + SumRasterPages(Tail(files))

\* The bound T + 1 + sum(P_i) on the logical calls of the batch.
FanOut == RasterPages(template_bytes) + 1 + SumRasterPages(pdf_files)

\* C37: a batch starts at most T + 1 + sum(P_i) logical calls, each of at
\* most max_retries + 1 attempts, so at most (T + 1 + sum(P_i)) * (R + 1)
\* POSTs; and a batch whose template stage succeeded has, at its end, started
\* exactly T + sum(P_i) calls, plus one if the mapping call was made.
C37_BoundedFanOut ==
    /\ calls <= FanOut
    /\ InCall => Len(call.attempts) <= max_retries + 1
    /\ (pc = "done" /\ TemplateStageSucceeded)
          => /\ calls \in {FanOut - 1, FanOut}
             /\ calls = FanOut => html_fetch = Str("ok")

\* C38: for a string that is not JSON as a whole, parse_model_response looks
\* at the balanced substring starting at the first opener and at nothing
\* else: it returns that substring's value when it is JSON, and the original
\* string when there is no such substring or it is not JSON, whatever later
\* part of the text would parse.
C38_FirstOpenerOnly ==
    (Parsed1 /\ IsStr(eval.x) /\ JsonLoads(eval.x.s) = JSONDecodeError) =>
        LET sub == BalancedSubstring(eval.x.s) IN
        eval.value = IF sub # None /\ JsonLoads(sub.s) # JSONDecodeError
                     THEN JsonLoads(sub.s)
                     ELSE eval.x

\* C38 witness: {]}[] came back as it is, its trailing [] never tried.
C38_Witness ==
    /\ Parsed1
    /\ eval.x = Str(<<"{", "]", "}", "[", "]">>)
    /\ JsonLoads(<<"[", "]">>) # JSONDecodeError
    /\ eval.value = eval.x

\* The entries of a file's pages list that are extracted pages.
IsPageEntry(entry) == "answers" \in DOMAIN entry

\* The number of POSTs a file's entry stands for: one per extracted page and
\* one for the page whose request failed.
ApiFilePosts(i) ==
    LET pages == results[i].pages
        extracted == Cardinality({k \in 1..Len(pages) : IsPageEntry(pages[k])}) IN
    IF /\ extracted < Len(pages)
       /\ ApiPdfToBase64Images(pdf_files[i].bytes).ok
       /\ schemas # <<>>
    THEN extracted + 1 ELSE extracted

RECURSIVE ApiPostsUpTo(_)
ApiPostsUpTo(n) == IF n = 0 THEN 0 ELSE ApiFilePosts(n) + ApiPostsUpTo(n - 1)

\* C39: in api.extract no request is sent twice and a failure ends its file:
\* a file's pages list is the pages extracted so far, in index order, followed
\* by at most one error entry, which stands where the failure happened and is
\* missing only when every page was extracted; the POSTs made are one per
\* schema, one for the mapping and one per entry that needed one, so no page
\* after a failure is sent; and a 2xx response has an entry for every file.
C39_ApiStopsFileOnFailure ==
    /\ \A i \in 1..Len(results) :
          LET pages == results[i].pages
              doc == pdf_files[i].bytes IN
          /\ results[i].filename = pdf_files[i].filename
          /\ \A k \in 1..Len(pages) :
                IF IsPageEntry(pages[k])
                THEN /\ pages[k].page_index = k - 1
                     /\ pages[k].base64_image = B64Image(i, k - 1)
                ELSE k = Len(pages)
          /\ (pages = <<>> \/ IsPageEntry(pages[Len(pages)]))
                => Len(pages) = ApiRasterized(doc)
          /\ (pages # <<>> /\ ~IsPageEntry(pages[Len(pages)]))
                => \/ ~ApiPdfToBase64Images(doc).ok /\ Len(pages) = 1
                   \/ Len(pages) <= ApiRasterized(doc)
    /\ (pc = "api_files")
          => calls = Len(schemas) + 1 + ApiPostsUpTo(Len(results))
    /\ (pc = "done" /\ ret.status_code = 200)
          => /\ Len(ret.content.results) = Len(pdf_files)
             /\ calls = Len(schemas) + 1 + ApiPostsUpTo(Len(results))

C39_Witness ==
    /\ pc = "done" /\ ret.status_code = 200
    /\ Len(results) = 2
    /\ Len(results[1].pages) = 1 /\ ~IsPageEntry(results[1].pages[1])
    /\ ApiRasterized(pdf_files[1].bytes) = 1
    /\ Len(results[2].pages) = 1 /\ IsPageEntry(results[2].pages[1])
    /\ calls = 4

\* C40: with the API server of api.py running and reachable, the UI's health
\* check succeeds, and pressing Extract issues POST /extract and not the
\* refusal 'API server is not available'.
C40_HealthCheckSucceeds ==
    (pc = "eval" /\ eval.fn = "ui" /\ eval.server = "running"
        /\ "api_health" \in DOMAIN eval) =>
        /\ eval.api_health
        /\ "pressed" \in DOMAIN eval => eval.pressed = "POST /extract"

====
